---- MODULE Spec2Model ----
(***************************************************************************)
(* FUDO market-monitoring and alert-dispatch pipeline.                     *)
(*                                                                         *)
(* Each subsystem of the pipeline is a group of variables with its own     *)
(* actions and its own specification:                                      *)
(*   SpecCache   stock_api._Cache (TTL cache)                              *)
(*   SpecSurge   rss_monitor.check_surge_alerts / record_price             *)
(*   SpecHist    rss_monitor.record_price on one ticker, to capacity       *)
(*   SpecScreen  rss_monitor.screen_and_notify / reset_notified            *)
(*   SpecDisc    database.add_disclosure                                   *)
(*   SpecAlert   rss_monitor.check_price_alerts and the price_alerts table *)
(*   SpecSched   scheduler.start_scheduler and the jobs it registers       *)
(*   SpecIngest  the scrapers, scheduler.job_check_tdnet, the app buttons  *)
(*   SpecQuote   stock_api.get_prices                                      *)
(*   SpecConc    two monitoring cycles interleaved on the shared state     *)
(*   SpecAddConc two database.add_disclosure calls interleaved             *)
(*   SpecRecConc two rss_monitor.record_price calls interleaved            *)
(*   SpecMonitor app._monitor_fragment, its switch, notifier.send_line     *)
(*   SpecRanking dde_monitor.check_and_notify_ranking                      *)
(* Python dicts are functions whose DOMAIN is the set of keys present.     *)
(* Times are whole seconds; prices are whole yen.                          *)
(***************************************************************************)
EXTENDS Integers, Sequences, FiniteSets, TLC

VARIABLES
    \* ---- stock_api._Cache ----
    store,              \* _Cache._store: key -> <<ts, value>>
    time_now,           \* time.time()
    cache_ret,          \* the call just made on the cache and what it returned
    last_set,           \* history: key -> <<time, value>> of the last set() since clear()
    \* ---- rss_monitor surge detector ----
    price_history,      \* _price_history: ticker -> deque of <<ts, price>>
    surge_notified_at,  \* _surge_notified_at: ticker -> time of the last surge alert
    now,                \* datetime.now()
    surge_hits,         \* return value of the last check_surge_alerts
    surge_log,          \* history: every surge alert sent by send_line, in order
    record_ret,         \* history: the last record_price call and the deque before it
    surge_polled,       \* history: the number of quotes check_surge_alerts has processed
    \* ---- rss_monitor screening ----
    notified_tickers,   \* _notified_tickers
    screen_hits,        \* return value of the last screen_and_notify
    hit_cycles,         \* history: ticker -> cycles that returned it as a hit since the last reset
    screen_taishaku_only, \* history: alert_filter.taishaku_only as the last screen_and_notify read it
    \* ---- database.disclosures ----
    disclosures,        \* rows of the disclosures table, in insertion order
    disc_next_id,       \* AUTOINCREMENT counter of disclosures.id
    add_ret,            \* the last add_disclosure call and what it returned
    disc_seen,          \* history: the keys add_disclosure was called with before the last call
    \* ---- database.price_alerts and the alert rule engine ----
    price_alerts,       \* rows of the price_alerts table: id -> row
    alert_next_id,      \* AUTOINCREMENT counter of price_alerts.id
    prev_volumes,       \* _prev_volumes: ticker -> volume
    alert_sent,         \* history: id -> number of send_line calls made for the rule
    alert_cycle,        \* history: what the last check_price_alerts cycle saw and did
    \* ---- scheduler ----
    sched_now,          \* datetime.now(), seconds since Monday 00:00
    sched_start,        \* the time start_scheduler was called
    next_run,           \* schedule: job -> Job.next_run
    last_offhours_run,  \* _last_offhours_run: <<>> for None, or <<time>>
    sched_alive,        \* the while loop of start_scheduler is still running
    sched_event,        \* history: what the last pass of run_pending triggered and ran
    prev_off_exec,      \* history: time of the last off-hours run of the disclosure body
    \* ---- disclosure ingestion ----
    ingest_event,       \* history: the last ingestion run, its duplicates and its outcome
    \* ---- stock_api.get_prices ----
    kabutan_store,      \* _kabutan_cache._store: ticker -> <<ts, supplement>>
    quote_event,        \* history: the last get_prices call, its remote requests, its result
    \* ---- concurrent monitoring cycles ----
    conc_thread,        \* cycle -> where it is in check_surge_alerts / screen_and_notify
    conc_calls,         \* history: the number of calls the cycles have begun
    \* ---- concurrent add_disclosure calls ----
    add_call,           \* caller -> where it is in add_disclosure, and with what record
    add_calls,          \* history: the number of add_disclosure calls begun
    add_done,           \* history: the add_disclosure calls that returned, with key and result
    \* ---- concurrent record_price calls ----
    rec_thread,         \* poll -> where it is in record_price, with the timestamp it took
    rec_calls,          \* history: the number of record_price calls begun
    \* ---- app monitoring fragment ----
    monitor_active,     \* st.session_state["monitor_active"]
    monitor_pc,         \* _monitor_fragment: "idle", or "fetching" inside get_rss_prices
    last_line_status,   \* notifier._last_line_status["ok"]: <<>> for None, or <<bool>>
    monitor_event,      \* history: the last run of _monitor_fragment: its fetch, its sends and their results
    \* ---- dde_monitor ranking ----
    last_notified,      \* dde_monitor._last_notified: ticker -> change_pct at the last notification
    rank_event          \* history: the last check_and_notify_ranking: ranking, targets, send result, map before

cacheVars  == <<store, time_now, cache_ret, last_set>>
surgeVars  == <<price_history, surge_notified_at, now, surge_hits, surge_log, record_ret,
               surge_polled>>
screenVars == <<notified_tickers, screen_hits, hit_cycles, screen_taishaku_only>>
discVars   == <<disclosures, disc_next_id, add_ret, disc_seen>>
alertVars  == <<price_alerts, alert_next_id, prev_volumes, alert_sent, alert_cycle>>
schedVars  == <<sched_now, sched_start, next_run, last_offhours_run, sched_alive, sched_event,
               prev_off_exec>>
ingestVars == <<ingest_event>>
quoteVars  == <<kabutan_store, quote_event>>
concVars   == <<conc_thread, conc_calls>>
addConcVars == <<add_call, add_calls, add_done>>
recConcVars == <<rec_thread, rec_calls>>
monitorVars == <<monitor_active, monitor_pc, last_line_status, monitor_event>>
rankingVars == <<last_notified, rank_event>>
vars       == <<cacheVars, surgeVars, screenVars, discVars, alertVars, schedVars, ingestVars,
                quoteVars, concVars, addConcVars, recConcVars, monitorVars, rankingVars>>

\* what the actions of one subsystem leave alone
cacheOthers  == <<surgeVars, screenVars, discVars, alertVars, schedVars, ingestVars, quoteVars,
                  concVars, addConcVars, recConcVars, monitorVars, rankingVars>>
surgeOthers  == <<cacheVars, screenVars, discVars, alertVars, schedVars, ingestVars, quoteVars,
                  concVars, addConcVars, recConcVars, monitorVars, rankingVars>>
screenOthers == <<cacheVars, surgeVars, discVars, alertVars, schedVars, ingestVars, quoteVars,
                  concVars, addConcVars, recConcVars, monitorVars, rankingVars>>
discOthers   == <<cacheVars, surgeVars, screenVars, alertVars, schedVars, ingestVars, quoteVars,
                  concVars, addConcVars, recConcVars, monitorVars, rankingVars>>
alertOthers  == <<cacheVars, surgeVars, screenVars, discVars, schedVars, ingestVars, quoteVars,
                  concVars, addConcVars, recConcVars, monitorVars, rankingVars>>
schedOthers  == <<cacheVars, surgeVars, screenVars, discVars, alertVars, ingestVars, quoteVars,
                  concVars, addConcVars, recConcVars, monitorVars, rankingVars>>
\* the ingestion runs write the disclosures table themselves
ingestOthers == <<cacheVars, surgeVars, screenVars, alertVars, schedVars, quoteVars, concVars,
                  addConcVars, recConcVars, monitorVars, rankingVars>>
\* get_prices reads and writes the quote cache itself
quoteOthers  == <<surgeVars, screenVars, discVars, alertVars, schedVars, ingestVars, concVars,
                  addConcVars, recConcVars, monitorVars, rankingVars>>
\* the concurrent cycles work on the surge and screening state
concOthers   == <<cacheVars, discVars, alertVars, schedVars, ingestVars, quoteVars, addConcVars,
                  recConcVars, monitorVars, rankingVars>>
\* the concurrent add_disclosure calls write the disclosures table
addConcOthers == <<cacheVars, surgeVars, screenVars, alertVars, schedVars, ingestVars, quoteVars,
                   concVars, recConcVars, monitorVars, rankingVars>>
\* the concurrent record_price calls work on the surge state
recConcOthers == <<cacheVars, screenVars, discVars, alertVars, schedVars, ingestVars, quoteVars,
                   concVars, addConcVars, monitorVars, rankingVars>>
\* the monitoring fragment runs the surge, screening and rule checks
monitorOthers == <<cacheVars, discVars, schedVars, ingestVars, quoteVars, concVars, addConcVars,
                   recConcVars, rankingVars>>
\* what the ranking check leaves alone
rankingOthers == <<cacheVars, surgeVars, screenVars, discVars, alertVars, schedVars, ingestVars,
                   quoteVars, concVars, addConcVars, recConcVars, monitorVars>>

\* Python's None
None == "None"

\* The empty dict
EmptyDict == [k \in {} |-> None]

\* d[key] = value on a dict
DictSet(d, key, value) == [k \in DOMAIN d \cup {key} |-> IF k = key THEN value ELSE d[k]]

\* del d[key]
DictDel(d, key) == [k \in DOMAIN d \ {key} |-> d[k]]

\* d.get(key, default)
DictGet(d, key, default) == IF key \in DOMAIN d THEN d[key] ELSE default

(***************************************************************************)
(* stock_api._Cache                                                        *)
(***************************************************************************)

\* _price_cache = _Cache(ttl=30)
PriceCacheTTL == 30

CacheKeys   == {"6920", "3856"}
CacheValues == {"q1", "q2"}
\* the clock advances by these amounts, up to MaxCacheTime
CacheSteps  == {30, 31}
MaxCacheTime == 62

NoCall == [op |-> "none"]

InitCache ==
    /\ store = EmptyDict
    /\ time_now = 0
    /\ cache_ret = NoCall
    /\ last_set = EmptyDict

\* a faulty variant of CacheExpired: the age test is off by one second
CacheExpired_OffByOne(ts, t, ttl) == t - ts > ttl + 1

\* _Cache.get: time.time() - ts > self._ttl
CacheExpired(ts, t, ttl) == t - ts > ttl

\* _Cache.get(key)
CacheGet(key) ==
    /\ IF key \notin DOMAIN store
       THEN /\ cache_ret' = [op |-> "get", key |-> key, value |-> None]
            /\ store' = store
       ELSE IF CacheExpired(store[key][1], time_now, PriceCacheTTL)
            THEN /\ store' = DictDel(store, key)
                 /\ cache_ret' = [op |-> "get", key |-> key, value |-> None]
            ELSE /\ store' = store
                 /\ cache_ret' = [op |-> "get", key |-> key, value |-> store[key][2]]
    /\ UNCHANGED <<time_now, last_set, cacheOthers>>

\* _Cache.set(key, value)
CacheSet(key, value) ==
    /\ store' = DictSet(store, key, <<time_now, value>>)
    /\ last_set' = DictSet(last_set, key, <<time_now, value>>)
    /\ cache_ret' = NoCall
    /\ UNCHANGED <<time_now, cacheOthers>>

\* _Cache.clear()
CacheClear ==
    /\ store' = EmptyDict
    /\ last_set' = EmptyDict
    /\ cache_ret' = NoCall
    /\ UNCHANGED <<time_now, cacheOthers>>

\* time.time() moves on
CacheTick(d) ==
    /\ time_now + d <= MaxCacheTime
    /\ time_now' = time_now + d
    /\ cache_ret' = NoCall
    /\ UNCHANGED <<store, last_set, cacheOthers>>

(***************************************************************************)
(* rss_monitor: price history and the surge detector                       *)
(***************************************************************************)

SURGE_THRESHOLD_PCT == 4
SURGE_WINDOW_SEC    == 180
SURGE_COOLDOWN_SEC  == 300
\* deque(maxlen=200)
HistoryMaxLen       == 200

\* The quotes a poll can deliver: [ticker, price]. Price 0 is what get_prices
\* puts for a quote without a price ("price": price or 0).
SurgeQuotes ==
    { [ticker |-> "6920", price |-> p] : p \in {0, 1000, 1039, 1040} } \cup
    { [ticker |-> "3856", price |-> p] : p \in {500, 520} }
SurgeTickers == { q.ticker : q \in SurgeQuotes }

\* datetime.now() advances by these amounts, up to MaxSurgeTime
SurgeSteps   == {180, 300}
MaxSurgeTime == 480
\* the number of quotes processed over all cycles of a run
MaxSurgeQuotes == 4

RECURSIVE SeqsUpTo(_, _)
\* all sequences over S of length at most n
SeqsUpTo(S, n) ==
    IF n = 0 THEN { <<>> }
    ELSE LET shorter == SeqsUpTo(S, n - 1)
         IN  shorter \cup { Append(s, x) : s \in { t \in shorter : Len(t) = n - 1 }, x \in S }

InitSurge ==
    /\ price_history = EmptyDict
    /\ surge_notified_at = EmptyDict
    /\ now = 0
    /\ surge_hits = <<>>
    /\ surge_log = <<>>
    /\ record_ret = NoCall
    /\ surge_polled = 0

\* a faulty variant of DequeAppend: on overflow the newest sample is dropped instead
DequeAppend_DropNewest(dq, x, maxlen) ==
    IF Len(dq) >= maxlen THEN dq ELSE Append(dq, x)

\* deque(maxlen=n).append(x): the oldest element leaves when the deque is full
DequeAppend(dq, x, maxlen) ==
    IF Len(dq) >= maxlen THEN Append(Tail(dq), x) ELSE Append(dq, x)

\* record_price(ticker, price), on the history map `hist` at clock reading `ts`
RecordPrice(hist, ticker, price, ts) ==
    IF price <= 0
    THEN hist
    ELSE DictSet(hist, ticker,
                 DequeAppend(DictGet(hist, ticker, <<>>), <<ts, price>>, HistoryMaxLen))

\* a faulty variant of FindBase: the newest sample that is old enough is taken
FindBase_Newest(history, t) ==
    LET old == { i \in 1..Len(history) : t - history[i][1] >= SURGE_WINDOW_SEC }
    IN  IF old = {} THEN <<>>
        ELSE << history[CHOOSE i \in old : \A j \in old : i >= j][2] >>

\* check_surge_alerts: the scan for the base price; <<price>>, or <<>> for a
\* base_price left None because no sample is old enough.
\*   for ts, price in history: if elapsed >= SURGE_WINDOW_SEC: base_price = price; break
FindBase(history, t) ==
    LET old == { i \in 1..Len(history) : t - history[i][1] >= SURGE_WINDOW_SEC }
    IN  IF old = {} THEN <<>>
        ELSE << history[CHOOSE i \in old : \A j \in old : i <= j][2] >>

\* a faulty variant of BelowThreshold: a rise of exactly the threshold does not count
BelowThreshold_Strict(current_price, base_price) ==
    (current_price - base_price) * 100 <= SURGE_THRESHOLD_PCT * base_price

\* check_surge_alerts: change_pct < SURGE_THRESHOLD_PCT, where
\* change_pct = (current_price - base_price) / base_price * 100 and base_price > 0.
\* On whole-yen prices the float expression decides as this product does.
BelowThreshold(current_price, base_price) ==
    (current_price - base_price) * 100 < SURGE_THRESHOLD_PCT * base_price

\* a faulty variant of InCooldown: the window length is used for the cooldown
InCooldown_Window(notified, ticker, t) ==
    /\ ticker \in DOMAIN notified
    /\ t - notified[ticker] < SURGE_WINDOW_SEC

\* check_surge_alerts: last_notified and (now - last_notified) < SURGE_COOLDOWN_SEC
InCooldown(notified, ticker, t) ==
    /\ ticker \in DOMAIN notified
    /\ t - notified[ticker] < SURGE_COOLDOWN_SEC

\* the timestamp of the sample FindBase takes; kept in surge_log for reference
BaseTime(history, t) ==
    LET old == { i \in 1..Len(history) : t - history[i][1] >= SURGE_WINDOW_SEC }
    IN  history[CHOOSE i \in old : \A j \in old : i <= j][1]

\* the price at the latest time at least SURGE_WINDOW_SEC ago for which there
\* is a sample ("the price of 3 minutes ago"; of several samples taken at that
\* time, the first); kept in surge_log for reference. Only used where FindBase
\* found a sample, so one exists.
PriceWindowAgo(history, t) ==
    LET old    == { i \in 1..Len(history) : t - history[i][1] >= SURGE_WINDOW_SEC }
        latest == { i \in old : \A j \in old : history[j][1] <= history[i][1] }
    IN  history[CHOOSE i \in latest : \A j \in latest : i <= j][2]

\* check_surge_alerts: the body of the loop for one quote p, on the loop state
\* st = [hist, notified, hits, log]
SurgeOne(st, p, t) ==
    IF p.price <= 0 THEN st
    ELSE
    LET hist1   == RecordPrice(st.hist, p.ticker, p.price, t)
        history == DictGet(hist1, p.ticker, <<>>)
        found   == FindBase(history, t)
        base    == found[1]
        st1     == [st EXCEPT !.hist = hist1]
    IN  IF Len(history) < 2 THEN st1
        ELSE IF found = <<>> THEN st1
        ELSE IF base <= 0 THEN st1
        ELSE IF BelowThreshold(p.price, base) THEN st1
        ELSE IF InCooldown(st.notified, p.ticker, t) THEN st1
        ELSE [hist     |-> hist1,
              notified |-> DictSet(st.notified, p.ticker, t),
              hits     |-> Append(st.hits, p),
              log      |-> Append(st.log,
                                  [ticker |-> p.ticker, at |-> t, price |-> p.price,
                                   base |-> base, base_age |-> t - BaseTime(history, t),
                                   window_ago |-> PriceWindowAgo(history, t)])]

RECURSIVE SurgeLoop(_, _, _)
\* check_surge_alerts: for p in prices
SurgeLoop(st, prices, t) ==
    IF prices = <<>> THEN st
    ELSE SurgeLoop(SurgeOne(st, Head(prices), t), Tail(prices), t)

\* check_surge_alerts(prices)
CheckSurgeAlerts(prices) ==
    LET st == SurgeLoop([hist |-> price_history, notified |-> surge_notified_at,
                         hits |-> <<>>, log |-> surge_log], prices, now)
    IN  /\ surge_polled + Len(prices) <= MaxSurgeQuotes
        /\ surge_polled' = surge_polled + Len(prices)
        /\ price_history' = st.hist
        /\ surge_notified_at' = st.notified
        /\ surge_hits' = st.hits
        /\ surge_log' = st.log
        /\ record_ret' = NoCall
        /\ UNCHANGED <<now, surgeOthers>>

\* datetime.now() moves on
SurgeTick(d) ==
    /\ now + d <= MaxSurgeTime
    /\ now' = now + d
    /\ UNCHANGED <<price_history, surge_notified_at, surge_hits, surge_log, record_ret,
                   surge_polled, surgeOthers>>


\* the batches of at most n quotes a poll can deliver
SurgeBatches == [n \in 0..MaxSurgeQuotes |-> SeqsUpTo(SurgeQuotes, n)]

(***************************************************************************)
(* rss_monitor.record_price on one ticker, polled once a second, until the *)
(* deque is full and beyond                                                *)
(***************************************************************************)

HistTicker  == "6920"
MaxHistTime == 204

\* the price polled at second t; it changes from sample to sample, so that
\* the samples of a history can be told apart
HistPriceAt(t) == 1000 + (t % 7)

\* the timestamp of the newest sample of a ticker, -1 when it has none
LastSampleTime(ticker) ==
    IF ticker \notin DOMAIN price_history THEN -1
    ELSE price_history[ticker][Len(price_history[ticker])][1]

\* record_price(ticker, price) called on its own
HistRecord(ticker, price) ==
    /\ price > 0 => LastSampleTime(ticker) < now
    /\ price_history' = RecordPrice(price_history, ticker, price, now)
    /\ record_ret' = [op |-> "record", ticker |-> ticker, price |-> price, at |-> now,
                      before |-> DictGet(price_history, ticker, <<>>)]
    /\ UNCHANGED <<surge_notified_at, now, surge_hits, surge_log, surge_polled, surgeOthers>>

\* datetime.now() moves on by a second, once this second's sample is in
HistTick ==
    /\ now < MaxHistTime
    /\ LastSampleTime(HistTicker) = now
    /\ now' = now + 1
    /\ record_ret' = NoCall
    /\ UNCHANGED <<price_history, surge_notified_at, surge_hits, surge_log, surge_polled,
                   surgeOthers>>

(***************************************************************************)
(* rss_monitor: screening                                                  *)
(***************************************************************************)

\* p.get("taishaku", "") of a lendable issue
Taishaku == "taishaku"

\* filt.get("market_cap_max", 10_000_000_000), in units of 100 million yen
MarketCapMax == 100
\* filt.get("volume_min", 1_000_000), in units of 10 thousand shares
VolumeMin    == 100

\* The quotes a poll can deliver: market_cap in 100 million yen (0: unknown),
\* volume in 10 thousand shares
ScreenQuotes ==
    { [ticker |-> t, taishaku |-> k, market_cap |-> c[1], volume |-> c[2]] :
        t \in {"6920", "3856", "7203"}, k \in {Taishaku, ""},
        c \in { <<100, 100>>, <<101, 100>>, <<100, 99>>, <<0, 100>> } }
ScreenTickers  == { q.ticker : q \in ScreenQuotes }
MaxScreenBatch == 2
ScreenBatches  == SeqsUpTo(ScreenQuotes, MaxScreenBatch)

InitScreen ==
    /\ notified_tickers = {}
    /\ screen_hits = <<>>
    /\ hit_cycles = [t \in ScreenTickers |-> 0]
    /\ screen_taishaku_only = TRUE

\* a faulty variant of AlreadyNotified: the notified-set is not consulted
AlreadyNotified_Never(notified, ticker) == FALSE

\* screen_and_notify: if ticker in _notified_tickers: continue
AlreadyNotified(notified, ticker) == ticker \in notified

\* a faulty variant of PassesFilter: a quote without a market cap passes the ceiling
PassesFilter_UnknownCapPasses(p, taishaku_only) ==
    /\ ~ (taishaku_only /\ p.taishaku # Taishaku)
    /\ ~ (p.market_cap > MarketCapMax)
    /\ ~ (p.volume < VolumeMin)

\* screen_and_notify: the three checks of the loop body; TRUE when p passes
PassesFilter(p, taishaku_only) ==
    /\ ~ (taishaku_only /\ p.taishaku # Taishaku)
    /\ ~ (p.market_cap <= 0 \/ p.market_cap > MarketCapMax)
    /\ ~ (p.volume < VolumeMin)

\* screen_and_notify: the body of the loop for one quote p, on the loop state
\* st = [notified, hits]
ScreenOne(st, p, taishaku_only) ==
    IF AlreadyNotified(st.notified, p.ticker) THEN st
    ELSE IF ~ PassesFilter(p, taishaku_only) THEN st
    ELSE [notified |-> st.notified \cup {p.ticker}, hits |-> Append(st.hits, p)]

RECURSIVE ScreenLoop(_, _, _)
\* screen_and_notify: for p in prices
ScreenLoop(st, prices, taishaku_only) ==
    IF prices = <<>> THEN st
    ELSE ScreenLoop(ScreenOne(st, Head(prices), taishaku_only), Tail(prices), taishaku_only)

\* screen_and_notify(prices), with api.alert_filter.taishaku_only as configured
ScreenAndNotify(prices, taishaku_only) ==
    LET st == ScreenLoop([notified |-> notified_tickers, hits |-> <<>>], prices, taishaku_only)
        hit == { st.hits[i].ticker : i \in 1..Len(st.hits) }
    IN  /\ notified_tickers' = st.notified
        /\ screen_hits' = st.hits
        /\ hit_cycles' = [t \in ScreenTickers |->
                            IF t \in hit THEN hit_cycles[t] + 1 ELSE hit_cycles[t]]
        /\ screen_taishaku_only' = taishaku_only
        /\ UNCHANGED screenOthers

\* reset_notified()
ResetNotified ==
    /\ notified_tickers' = {}
    /\ hit_cycles' = [t \in ScreenTickers |-> 0]
    /\ UNCHANGED <<screen_hits, screen_taishaku_only, screenOthers>>

(***************************************************************************)
(* database: the disclosures table                                         *)
(***************************************************************************)

\* The records the scraped sources can deliver. Every source sets ticker, title
\* and disclosed_at to strings.
DiscRecords ==
    { [ticker |-> t, company_name |-> "A Corp", title |-> ti, disclosed_at |-> d,
       market_cap |-> <<>>, source |-> src] :
        t \in {"1234", "5678"}, ti \in {"X", "Y"},
        d \in {"2024-01-01 09:00", "2024-01-01 09:05"},
        src \in {"tdnet", "kabutan"} }
\* the number of rows the table may hold
MaxDisclosures == 3

\* the natural key of a record or of a row
DiscKey(r) == <<r.ticker, r.title, r.disclosed_at>>

InitDisc ==
    /\ disclosures = <<>>
    /\ disc_next_id = 1
    /\ add_ret = NoCall
    /\ disc_seen = {}

\* a faulty variant of ExistingDisclosure: the source is part of the duplicate check
ExistingDisclosure_PerSource(rows, data) ==
    \E i \in 1..Len(rows) :
        /\ rows[i].ticker = data.ticker
        /\ rows[i].title = data.title
        /\ rows[i].disclosed_at = data.disclosed_at
        /\ rows[i].source = data.source

\* add_disclosure: SELECT id FROM disclosures
\*                 WHERE ticker = ? AND title = ? AND disclosed_at = ?
ExistingDisclosure(rows, data) ==
    \E i \in 1..Len(rows) :
        /\ rows[i].ticker = data.ticker
        /\ rows[i].title = data.title
        /\ rows[i].disclosed_at = data.disclosed_at

\* add_disclosure: the row INSERT INTO disclosures stores for data; market_cap is
\* <<>> for NULL
DisclosureRow(id, data) ==
    [id |-> id, ticker |-> data.ticker, company_name |-> data.company_name,
     title |-> data.title, disclosed_at |-> data.disclosed_at,
     market_cap |-> data.market_cap, source |-> data.source, notified |-> 0]

\* add_disclosure(data); ret is <<id>>, or <<>> for None
AddDisclosure(data) ==
    /\ Len(disclosures) < MaxDisclosures \/ ExistingDisclosure(disclosures, data)
    /\ IF ExistingDisclosure(disclosures, data)
       THEN /\ add_ret' = [op |-> "add", data |-> data, ret |-> <<>>,
                           rows_before |-> disclosures]
            /\ UNCHANGED <<disclosures, disc_next_id>>
       ELSE /\ disclosures' = Append(disclosures, DisclosureRow(disc_next_id, data))
            /\ disc_next_id' = disc_next_id + 1
            /\ add_ret' = [op |-> "add", data |-> data, ret |-> <<disc_next_id>>,
                           rows_before |-> disclosures]
    /\ disc_seen' = disc_seen \cup (IF add_ret.op = "add" THEN {DiscKey(add_ret.data)} ELSE {})
    /\ UNCHANGED discOthers

(***************************************************************************)
(* database: the price_alerts table; rss_monitor: the alert rule engine    *)
(***************************************************************************)

\* target_price of a rule without one (NULL)
NoTarget == 0

\* The rules the journal UI creates (add_price_alert): price-target rules on
\* 3856, volume-surge rules on 6920 with the default volume_ratio 2.0
AlertInputs ==
    { [ticker |-> "3856", alert_type |-> "price", target_price |-> 500,
       direction |-> d, volume_ratio |-> 2] : d \in {"above", "below"} } \cup
    { [ticker |-> "6920", alert_type |-> "volume", target_price |-> NoTarget,
       direction |-> "above", volume_ratio |-> 2] }
\* the number of rules created in a run
MaxAlerts == 2

\* The quotes a poll can deliver: [ticker, price, volume]
AlertQuotes ==
    { [ticker |-> "3856", price |-> p, volume |-> 10000] : p \in {499, 500, 501} } \cup
    { [ticker |-> "6920", price |-> 1000, volume |-> v] : v \in {0, 10000, 20000, 25000} }
AlertTickers  == { q.ticker : q \in AlertQuotes }
MaxAlertBatch == 1
AlertBatches  == SeqsUpTo(AlertQuotes, MaxAlertBatch)

InitAlert ==
    /\ price_alerts = EmptyDict
    /\ alert_next_id = 1
    /\ prev_volumes = EmptyDict
    /\ alert_sent = EmptyDict
    /\ alert_cycle = NoCall

\* add_price_alert(data): active defaults to 1, triggered to 0
AddPriceAlert(data) ==
    /\ alert_next_id <= MaxAlerts
    /\ price_alerts' = DictSet(price_alerts, alert_next_id,
                               [id |-> alert_next_id, ticker |-> data.ticker,
                                alert_type |-> data.alert_type,
                                target_price |-> data.target_price,
                                direction |-> data.direction,
                                volume_ratio |-> data.volume_ratio,
                                active |-> 1, triggered |-> 0])
    /\ alert_next_id' = alert_next_id + 1
    /\ alert_sent' = DictSet(alert_sent, alert_next_id, 0)
    /\ alert_cycle' = NoCall
    /\ UNCHANGED <<prev_volumes, alertOthers>>

\* deactivate_alert(alert_id): UPDATE price_alerts SET active = 0 WHERE id = ?
DeactivateAlert(alert_id) ==
    /\ alert_id \in DOMAIN price_alerts
    /\ price_alerts' = [price_alerts EXCEPT ![alert_id].active = 0]
    /\ alert_cycle' = NoCall
    /\ UNCHANGED <<alert_next_id, prev_volumes, alert_sent, alertOthers>>

RECURSIVE SortedDesc(_)
\* the ids of S as a sequence, largest first (ORDER BY id DESC)
SortedDesc(S) ==
    IF S = {} THEN <<>>
    ELSE LET m == CHOOSE x \in S : \A y \in S : y <= x
         IN  <<m>> \o SortedDesc(S \ {m})

\* a faulty variant of ActiveAlerts: the WHERE clause is missing
ActiveAlerts_All(table) == SortedDesc(DOMAIN table)

\* get_active_alerts(): SELECT * FROM price_alerts WHERE active = 1 ORDER BY id DESC;
\* the ids of the rows returned
ActiveAlerts(table) == SortedDesc({ id \in DOMAIN table : table[id].active = 1 })

\* a faulty variant of TriggerAlert: the rule is marked triggered but stays active
TriggerAlert_StaysActive(table, alert_id) ==
    IF alert_id \in DOMAIN table
    THEN [table EXCEPT ![alert_id].triggered = 1]
    ELSE table

\* trigger_alert(alert_id): UPDATE price_alerts SET triggered = 1, active = 0 WHERE id = ?
TriggerAlert(table, alert_id) ==
    IF alert_id \in DOMAIN table
    THEN [table EXCEPT ![alert_id].triggered = 1, ![alert_id].active = 0]
    ELSE table

RECURSIVE PriceMap(_)
\* check_price_alerts: price_map = {p["ticker"]: p for p in prices}
PriceMap(prices) ==
    IF prices = <<>> THEN EmptyDict
    ELSE LET p == prices[Len(prices)]
             m == PriceMap(SubSeq(prices, 1, Len(prices) - 1))
         IN  DictSet(m, p.ticker, p)

\* _check_price_target: the test that sets `triggered`
PriceReached(direction, price, target) ==
    \/ direction = "above" /\ price >= target
    \/ direction = "below" /\ price <= target

\* _check_price_target(alert, p), on the engine state st = [table, prev, sent]
CheckPriceTarget(st, alert, p) ==
    IF alert.target_price = NoTarget THEN st
    ELSE IF PriceReached(alert.direction, p.price, alert.target_price)
         THEN [st EXCEPT !.sent[alert.id] = @ + 1,
                         !.table = TriggerAlert(st.table, alert.id)]
         ELSE st

\* _check_volume_surge(alert, p), on the engine state st = [table, prev, sent]
CheckVolumeSurge(st, alert, p) ==
    LET current_vol == p.volume
        prev_vol    == DictGet(st.prev, alert.ticker, 0)
        st1         == [st EXCEPT !.prev = DictSet(st.prev, alert.ticker, current_vol)]
    IN  IF prev_vol = 0 THEN st1
        ELSE IF prev_vol > 0 /\ current_vol >= prev_vol * alert.volume_ratio
             THEN [st1 EXCEPT !.sent[alert.id] = @ + 1,
                              !.table = TriggerAlert(st1.table, alert.id)]
             ELSE st1

RECURSIVE AlertLoop(_, _, _, _)
\* check_price_alerts: for alert in alerts, where `alerts` are the rows read at
\* the start of the cycle (ids, with `rows` the table as it was read)
AlertLoop(st, alerts, rows, price_map) ==
    IF alerts = <<>> THEN st
    ELSE LET alert == rows[Head(alerts)]
             next  == IF alert.ticker \notin DOMAIN price_map THEN st
                      ELSE IF alert.alert_type = "price"
                           THEN CheckPriceTarget(st, alert, price_map[alert.ticker])
                      ELSE IF alert.alert_type = "volume"
                           THEN CheckVolumeSurge(st, alert, price_map[alert.ticker])
                      ELSE st
         IN  AlertLoop(next, Tail(alerts), rows, price_map)

\* check_price_alerts(prices)
CheckPriceAlerts(prices) ==
    LET alerts == ActiveAlerts(price_alerts)
        st     == AlertLoop([table |-> price_alerts, prev |-> prev_volumes,
                             sent |-> alert_sent],
                            alerts, price_alerts, PriceMap(prices))
    IN  /\ price_alerts' = st.table
        /\ prev_volumes' = st.prev
        /\ alert_sent' = st.sent
        /\ alert_cycle' = [op |-> "check", price_map |-> PriceMap(prices),
                           active_ids |-> { alerts[i] : i \in 1..Len(alerts) }]
        /\ UNCHANGED <<alert_next_id, alertOthers>>

(***************************************************************************)
(* Specifications                                                          *)
(***************************************************************************)
(* scheduler: start_scheduler and its jobs                                 *)
(***************************************************************************)

\* seconds in a day; times of the scheduler are seconds since Monday 00:00
DaySec == 86400

\* the jobs start_scheduler registers, in registration order
SchedJobs ==
    << [name |-> "morning",   unit |-> "day", at |-> 30600, every |-> 0],
       [name |-> "notion0900", unit |-> "day", at |-> 32400, every |-> 0],
       [name |-> "notion1200", unit |-> "day", at |-> 43200, every |-> 0],
       [name |-> "notion1500", unit |-> "day", at |-> 54000, every |-> 0],
       [name |-> "tdnet",     unit |-> "sec", at |-> 0, every |-> 300],
       [name |-> "taishaku",  unit |-> "sec", at |-> 0, every |-> 300],
       [name |-> "dde",       unit |-> "sec", at |-> 0, every |-> 30],
       [name |-> "evening",   unit |-> "day", at |-> 55800, every |-> 0] >>

JobIds == 1..Len(SchedJobs)

\* the jobs whose body is not wrapped in try/except Exception
RaisingJobs == {"morning", "notion0900", "notion1200", "notion1500", "tdnet", "evening"}

\* the instants at which start_scheduler is called: Fri 08:20, Fri 11:20,
\* Fri 14:50, Sat 08:50
SchedStarts == { 4 * DaySec + 30000, 4 * DaySec + 40800, 4 * DaySec + 53400,
                 5 * DaySec + 31800 }
\* the time one iteration of the loop takes: time.sleep(30) plus the jobs
SchedSteps == {30, 45}
\* how long after its start the scheduler is followed
MaxSchedElapsed == 4500

\* no pass of run_pending made yet
NoPass == [op |-> "none", at |-> 0, triggered |-> {}, executed |-> {}, raised |-> "none",
           tdnet_gap |-> <<>>]

\* schedule: the next occurrence of the clock time `at` after t
NextAt(t, at) ==
    LET c == (t - (t % DaySec)) + at
    IN  IF c > t THEN c ELSE c + DaySec

\* schedule: Job._schedule_next_run at time t
ScheduleNextRun(job, t) ==
    IF job.unit = "day" THEN NextAt(t, job.at) ELSE t + job.every

\* before start_scheduler is called no job is registered and no loop runs
InitSched ==
    /\ sched_now = 0
    /\ sched_start = -1
    /\ next_run = [j \in JobIds |-> 0]
    /\ last_offhours_run = <<>>
    /\ sched_alive = FALSE
    /\ sched_event = NoPass
    /\ prev_off_exec = <<>>

\* start_scheduler() called at time t: registers the jobs and enters the loop
StartScheduler(t) ==
    /\ sched_start = -1
    /\ sched_now' = t
    /\ sched_start' = t
    /\ next_run' = [j \in JobIds |-> ScheduleNextRun(SchedJobs[j], t)]
    /\ sched_alive' = TRUE
    /\ UNCHANGED <<last_offhours_run, sched_event, prev_off_exec, schedOthers>>

\* is_weekday(): datetime.now().weekday() < 5
IsWeekday(t) == ((t \div DaySec) % 7) < 5

\* _is_zaraba(): 540 <= hour * 60 + minute <= 690 or 750 <= ... <= 900
IsZaraba(t) ==
    LET m == (t % DaySec) \div 60
    IN  (540 <= m /\ m <= 690) \/ (750 <= m /\ m <= 900)

\* a faulty variant of OffHoursThrottled: a gap of exactly 1800 s is throttled too
OffHoursThrottled_Inclusive(last, t) ==
    last # <<>> /\ t - last[1] <= 1800

\* job_check_tdnet: _last_offhours_run and (now - _last_offhours_run) < 1800
OffHoursThrottled(last, t) ==
    last # <<>> /\ t - last[1] < 1800

\* the condition of the lambda a job is registered with (job_check_tdnet is
\* registered without one)
JobGate(name, t) ==
    CASE name = "tdnet" -> TRUE
      [] name = "dde"   -> IsWeekday(t) /\ IsZaraba(t)
      [] OTHER          -> IsWeekday(t)

\* schedule: the jobs due at time t, by next_run and then registration order
RECURSIVE SortJobs(_, _)
SortJobs(S, nr) ==
    IF S = {} THEN <<>>
    ELSE LET j == CHOOSE x \in S : \A y \in S : nr[x] < nr[y] \/ (nr[x] = nr[y] /\ x <= y)
         IN  <<j>> \o SortJobs(S \ {j}, nr)

\* schedule: one job of a pass at time t. A job function that raises ends the
\* pass before the job is rescheduled; fail names the job whose body raises.
RunJob(st, j, t, fail) ==
    LET name == SchedJobs[j].name
        off  == name = "tdnet" /\ ~IsZaraba(t)
        skip == ~JobGate(name, t) \/ (off /\ OffHoursThrottled(st.last_off, t))
        st1  == [st EXCEPT !.triggered = @ \cup {name},
                           !.tdnet_gap = IF name = "tdnet"
                                         THEN IF st.prev_off = <<>> THEN <<-1>>
                                              ELSE <<t - st.prev_off[1]>>
                                         ELSE @]
    IN  IF skip
        THEN [st1 EXCEPT !.next_run[j] = ScheduleNextRun(SchedJobs[j], t)]
        ELSE LET st2 == [st1 EXCEPT !.executed = @ \cup {name},
                                    !.last_off = IF off THEN <<t>> ELSE @,
                                    !.prev_off = IF off THEN <<t>> ELSE @]
             IN  IF name = fail
                 THEN [st2 EXCEPT !.raised = name]
                 ELSE [st2 EXCEPT !.next_run[j] = ScheduleNextRun(SchedJobs[j], t)]

\* schedule: run_pending over the due jobs, up to the first that raises
RECURSIVE RunJobs(_, _, _, _)
RunJobs(st, due, t, fail) ==
    IF due = <<>> \/ st.raised # "none" THEN st
    ELSE RunJobs(RunJob(st, Head(due), t, fail), Tail(due), t, fail)

\* one iteration of the loop of start_scheduler: schedule.run_pending() and
\* time.sleep(30); an exception other than KeyboardInterrupt leaves the loop
RunPending(fail, d) ==
    /\ sched_alive
    /\ sched_now - sched_start < MaxSchedElapsed
    /\ LET due == SortJobs({ j \in JobIds : next_run[j] <= sched_now }, next_run)
           st0 == [next_run |-> next_run, last_off |-> last_offhours_run,
                   prev_off |-> prev_off_exec, triggered |-> {}, executed |-> {},
                   raised |-> "none", tdnet_gap |-> <<>>]
           st  == RunJobs(st0, due, sched_now, fail)
       IN  /\ fail # "none" => st.raised = fail
           /\ next_run' = st.next_run
           /\ last_offhours_run' = st.last_off
           /\ prev_off_exec' = st.prev_off
           /\ sched_event' = [op |-> "pass", at |-> sched_now, triggered |-> st.triggered,
                              executed |-> st.executed, raised |-> st.raised,
                              tdnet_gap |-> st.tdnet_gap]
           /\ sched_alive' = (st.raised = "none")
           /\ sched_now' = sched_now + d
    /\ UNCHANGED <<sched_start, schedOthers>>

(***************************************************************************)
(* disclosure ingestion: the scrapers, the disclosure job, the app buttons *)
(***************************************************************************)

\* The texts a scraped page can carry, and the keywords each contains as a
\* substring ("kessan tanshin" and "shihanki hokokusho" stand for the periodic
\* report keywords, "jojo toshin" and "toshi shintaku" for the fund keywords)
TextKeywords ==
    [ x \in {"Revision of earnings forecast", "FY2024 Q3 kessan tanshin",
             "ETF daily disclosure", "A Corp", "NEXT FUNDS Nikkei 225 jojo toshin"} |->
        CASE x = "FY2024 Q3 kessan tanshin"          -> {"kessan tanshin"}
          [] x = "ETF daily disclosure"              -> {"ETF"}
          [] x = "NEXT FUNDS Nikkei 225 jojo toshin" -> {"NEXT FUNDS", "jojo toshin"}
          [] OTHER                                   -> {} ]

\* kw in text
Contains(text, kw) == kw \in TextKeywords[text]

\* _etf_keywords
EtfKeywords == {"jojo toshin", "ETF", "ETN", "toshi shintaku", "NEXT FUNDS"}

\* _kessan_keywords
KessanKeywords == {"kessan tanshin", "shihanki hokokusho"}

\* disclosure.market_cap_max (default 10_000_000_000), in units of 100 million yen
CapMax == 100

\* fetch_kabutan_basic: the market cap found for each ticker, <<>> when the
\* lookup yields none
MarketCapLookup ==
    [ t \in {"1234", "5678", "9012"} |->
        CASE t = "1234" -> <<>>
          [] t = "5678" -> <<100>>
          [] OTHER      -> <<101>> ]

\* the rows a scraped page can carry
RawRecords ==
    { [ticker |-> r[1], company_name |-> r[2], title |-> r[3],
       disclosed_at |-> "2024-01-01 09:00"] :
        r \in { <<"1234", "A Corp", "Revision of earnings forecast">>,
                <<"5678", "A Corp", "Revision of earnings forecast">>,
                <<"9012", "A Corp", "Revision of earnings forecast">>,
                <<"5678", "A Corp", "FY2024 Q3 kessan tanshin">>,
                <<"5678", "A Corp", "ETF daily disclosure">>,
                <<"1234", "NEXT FUNDS Nikkei 225 jojo toshin",
                  "Revision of earnings forecast">> } }
\* the number of rows of one scraped page
MaxIngestBatch == 2
\* the number of rows the table may hold in an ingestion run
MaxIngestRows == 2
IngestBatches == SeqsUpTo(RawRecords, MaxIngestBatch)

InitIngest ==
    ingest_event = NoCall

\* _get_market_cap_cached(ticker)
GetMarketCapCached(ticker) == MarketCapLookup[ticker]

\* the fund/ETF filter of fetch_tdnet_disclosures
IsEtf(raw) ==
    \E kw \in EtfKeywords : Contains(raw.title, kw) \/ Contains(raw.company_name, kw)

\* the periodic-report filter of fetch_tdnet_disclosures
IsKessan(raw) ==
    \E kw \in KessanKeywords : Contains(raw.title, kw)

\* the cap filter of fetch_tdnet_disclosures and fetch_kabutan_disclosures:
\* cap is not None and cap > cap_max
CapExcluded(cap) == cap # <<>> /\ cap[1] > CapMax

\* the cap filter of fetch_prtimes_latest: cap is None or cap > cap_max
CapExcludedPRTimes(cap) == cap = <<>> \/ cap[1] > CapMax

\* what a scraper does with one row: "kept", or the filter that drops it
Verdict(source, raw) ==
    LET cap == GetMarketCapCached(raw.ticker)
    IN  CASE source = "tdnet" ->
                 IF IsEtf(raw) THEN "etf"
                 ELSE IF IsKessan(raw) THEN "kessan"
                 ELSE IF CapExcluded(cap) THEN "cap" ELSE "kept"
          [] source = "kabutan" ->
                 IF CapExcluded(cap) THEN "cap" ELSE "kept"
          [] OTHER ->
                 IF CapExcludedPRTimes(cap) THEN "cap" ELSE "kept"

\* the item a scraper appends to its results for a kept row
ScrapedItem(source, raw) ==
    [ticker |-> raw.ticker, company_name |-> raw.company_name, title |-> raw.title,
     disclosed_at |-> raw.disclosed_at, market_cap |-> GetMarketCapCached(raw.ticker),
     source |-> source]

\* fetch_tdnet_disclosures / fetch_kabutan_disclosures / fetch_prtimes_latest on
\* the rows of a page
RECURSIVE Fetch(_, _)
Fetch(source, page) ==
    IF page = <<>> THEN <<>>
    ELSE (IF Verdict(source, Head(page)) = "kept"
          THEN <<ScrapedItem(source, Head(page))>> ELSE <<>>)
         \o Fetch(source, Tail(page))

\* the tickers of the rows of a page that the cap filter of a scraper dropped
CapDropped(source, page) ==
    { page[i].ticker : i \in { k \in 1..Len(page) : Verdict(source, page[k]) = "cap" } }

\* for item in items: db.add_disclosure(item), collecting the new ids
RECURSIVE AddAll(_, _)
AddAll(st, items) ==
    IF items = <<>> THEN st
    ELSE LET data == Head(items)
             st1  == IF ExistingDisclosure(st.rows, data) THEN st
                     ELSE [rows |-> Append(st.rows, DisclosureRow(st.next_id, data)),
                           next_id |-> st.next_id + 1,
                           new_ids |-> st.new_ids \cup {st.next_id}]
         IN  AddAll(st1, Tail(items))

\* the keys of the items that add_disclosure finds stored already
DupKeys(rows, items) ==
    { DiscKey(items[i]) : i \in { k \in 1..Len(items) : ExistingDisclosure(rows, items[k]) } }

\* a faulty variant of MarkNotified: the flag of every other row is cleared
MarkNotified_ResetOthers(rows, ids) ==
    [i \in 1..Len(rows) |-> [rows[i] EXCEPT !.notified = IF rows[i].id \in ids THEN 1 ELSE 0]]

\* mark_disclosure_notified for every id of ids
MarkNotified(rows, ids) ==
    [i \in 1..Len(rows) |-> IF rows[i].id \in ids THEN [rows[i] EXCEPT !.notified = 1]
                            ELSE rows[i]]

\* job_check_tdnet past its throttle: fetch, store, notify over LINE and
\* Discord (each send returns whether it succeeded), mark as notified
JobCheckTdnet(page, auto_notify, line_ok, discord_ok) ==
    LET items == Fetch("tdnet", page)
        st    == AddAll([rows |-> disclosures, next_id |-> disc_next_id, new_ids |-> {}],
                        items)
        sends == st.new_ids # {} /\ auto_notify
    IN  /\ Len(st.rows) <= MaxIngestRows
        /\ ~sends => (line_ok /\ discord_ok)
        /\ disclosures' = IF sends THEN MarkNotified(st.rows, st.new_ids) ELSE st.rows
        /\ disc_next_id' = st.next_id
        /\ ingest_event' = [op |-> "job", source |-> "tdnet",
                            cap_dropped |-> CapDropped("tdnet", page),
                            dup_keys |-> DupKeys(disclosures, items),
                            new_ids |-> st.new_ids, sent |-> sends,
                            line_ok |-> line_ok, discord_ok |-> discord_ok]
        /\ UNCHANGED <<add_ret, disc_seen, ingestOthers>>

\* app, tab 7: the two fetch buttons (source is "kabutan" or "prtimes")
AppFetchButton(source, page) ==
    LET items == Fetch(source, page)
        st    == AddAll([rows |-> disclosures, next_id |-> disc_next_id, new_ids |-> {}],
                        items)
    IN  /\ Len(st.rows) <= MaxIngestRows
        /\ disclosures' = st.rows
        /\ disc_next_id' = st.next_id
        /\ ingest_event' = [op |-> "button", source |-> source,
                            cap_dropped |-> CapDropped(source, page),
                            dup_keys |-> DupKeys(disclosures, items),
                            new_ids |-> st.new_ids, sent |-> FALSE,
                            line_ok |-> TRUE, discord_ok |-> TRUE]
        /\ UNCHANGED <<add_ret, disc_seen, ingestOthers>>

(***************************************************************************)
(* stock_api: get_prices, _fetch_yfinance, _get_kabutan_supplement         *)
(***************************************************************************)

\* _kabutan_cache = _Cache(ttl=86400)
KabutanCacheTTL == 86400

\* the tickers callers ask for, and the lists they pass
QuoteTickers == {"6920", "3856"}
\* the length of a list passed to get_prices
MaxQuoteList == 2
QuoteLists == SeqsUpTo(QuoteTickers, MaxQuoteList)
\* time between two calls of get_prices
QuoteSteps == {31}
\* time.time() is followed up to here
MaxQuoteTime == 62

\* what a kabutan lookup can do: deliver data; deliver nothing (the requests
\* fail, which fetch_kabutan_basic answers with None and _fetch_kabutan_taishaku
\* with "", or the page has no market cap and no margin class); or raise
\* inside _get_kabutan_supplement
SuppOutcomes == {"ok", "empty", "raise"}

InitQuote ==
    /\ kabutan_store = EmptyDict
    /\ quote_event = NoCall

\* _Cache.get as a function of the store: the store after the call and the
\* value returned, <<>> for None
CacheLookup(st, key, t, ttl) ==
    IF key \notin DOMAIN st THEN [store |-> st, value |-> <<>>]
    ELSE IF CacheExpired(st[key][1], t, ttl)
         THEN [store |-> DictDel(st, key), value |-> <<>>]
         ELSE [store |-> st, value |-> <<st[key][2]>>]

\* a variant of YfQuote: the market cap yfinance reports is put into the quote
YfQuote_YfMarketCap(ticker, t) ==
    [ticker |-> ticker, price |-> 1000, volume |-> 10000, market_cap |-> 500,
     taishaku |-> "", timestamp |-> t]

\* _fetch_yfinance: the quote built from the info of a ticker
YfQuote(ticker, t) ==
    [ticker |-> ticker, price |-> 1000, volume |-> 10000, market_cap |-> 0,
     taishaku |-> "", timestamp |-> t]

\* get_prices: the split of the input into cached quotes and tickers to fetch
RECURSIVE SplitCached(_, _, _)
SplitCached(st, tickers, t) ==
    IF tickers = <<>> THEN st
    ELSE LET key == Head(tickers)
             c   == CacheLookup(st.store, key, t, PriceCacheTTL)
             st1 == IF c.value # <<>>
                    THEN [st EXCEPT !.store = c.store,
                                    !.results = DictSet(@, key, c.value[1])]
                    ELSE [st EXCEPT !.store = c.store,
                                    !.fetch_needed = Append(@, key)]
         IN  SplitCached(st1, Tail(tickers), t)

\* the keys of a list, as symbol_map has them
Keys(seq) == { seq[i] : i \in 1..Len(seq) }

\* the number of times x occurs in seq
RECURSIVE Count(_, _)
Count(seq, x) ==
    IF seq = <<>> THEN 0
    ELSE (IF Head(seq) = x THEN 1 ELSE 0) + Count(Tail(seq), x)

\* _fetch_yfinance(tickers). batch_ok: yf.Tickers(...) does not raise; info_ok:
\* the tickers whose info the batch delivers; single_ok: the tickers whose
\* info an individual yf.Ticker delivers. Returns the result dict, the batch
\* request and the number of individual requests made per ticker.
FetchYfinance(tickers, batch_ok, info_ok, single_ok, t) ==
    IF batch_ok
    THEN [result  |-> [k \in Keys(tickers) \cap info_ok |-> YfQuote(k, t)],
          request |-> tickers,
          retries |-> [k \in QuoteTickers |-> 0]]
    ELSE [result  |-> [k \in Keys(tickers) \cap single_ok |-> YfQuote(k, t)],
          request |-> tickers,
          retries |-> [k \in QuoteTickers |-> Count(tickers, k)]]

\* _get_kabutan_supplement(ticker): the kabutan cache after the call and the
\* supplement returned, <<>> for None
GetKabutanSupplement(kst, ticker, outcome, t) ==
    LET c == CacheLookup(kst, ticker, t, KabutanCacheTTL)
    IN  IF c.value # <<>> THEN [store |-> c.store, value |-> c.value, looked_up |-> FALSE]
        ELSE IF outcome = "raise"
             THEN [store |-> c.store, value |-> <<>>, looked_up |-> TRUE]
             ELSE LET s == IF outcome = "ok"
                           THEN [market_cap |-> 50, taishaku |-> Taishaku]
                           ELSE [market_cap |-> 0, taishaku |-> ""]
                  IN  [store |-> DictSet(c.store, ticker, <<t, s>>), value |-> <<s>>,
                       looked_up |-> TRUE]

\* get_prices: if supplement: data["market_cap"] = ...; data["taishaku"] = ...
Enrich(data, supplement) ==
    IF supplement # <<>>
    THEN [data EXCEPT !.market_cap = supplement[1].market_cap,
                      !.taishaku = supplement[1].taishaku]
    ELSE data

\* get_prices: for t, data in yf_data.items(): enrich, results[t] = data,
\* _price_cache.set(t, data)
RECURSIVE EnrichAll(_, _, _, _, _)
EnrichAll(st, todo, yf_data, supp, t) ==
    IF todo = {} THEN st
    ELSE LET k == CHOOSE x \in todo : TRUE
             s == GetKabutanSupplement(st.kabutan, k, supp[k], t)
             d == Enrich(yf_data[k], s.value)
         IN  EnrichAll([st EXCEPT !.kabutan = s.store,
                                  !.results = DictSet(@, k, d),
                                  !.store = DictSet(@, k, <<t, d>>),
                                  !.supp_failed = IF s.looked_up /\ supp[k] # "ok"
                                                  THEN @ \cup {k} ELSE @],
                       todo \ {k}, yf_data, supp, t)

\* get_prices: [results[t] for t in tickers if t in results]
RECURSIVE InInputOrder(_, _)
InInputOrder(tickers, results) ==
    IF tickers = <<>> THEN <<>>
    ELSE (IF Head(tickers) \in DOMAIN results THEN <<results[Head(tickers)]>> ELSE <<>>)
         \o InInputOrder(Tail(tickers), results)

\* get_prices: the cache split, the fetch and the enrichment, in this order
GetPricesRun(tickers, batch_ok, info_ok, single_ok, supp) ==
    LET st0 == SplitCached([store |-> store, results |-> EmptyDict, fetch_needed |-> <<>>],
                           tickers, time_now)
        yf  == IF st0.fetch_needed # <<>>
               THEN FetchYfinance(st0.fetch_needed, batch_ok, info_ok, single_ok, time_now)
               ELSE [result |-> EmptyDict, request |-> <<>>,
                     retries |-> [k \in QuoteTickers |-> 0]]
        st1 == EnrichAll([store |-> st0.store, kabutan |-> kabutan_store,
                          results |-> st0.results, supp_failed |-> {}],
                         DOMAIN yf.result, yf.result, supp, time_now)
    IN  [fetch_needed |-> st0.fetch_needed, yf |-> yf, store |-> st1.store,
         kabutan |-> st1.kabutan, results |-> st1.results,
         supp_failed |-> st1.supp_failed]

\* get_prices(tickers)
GetPrices(tickers, batch_ok, info_ok, single_ok, supp) ==
    \E run \in {GetPricesRun(tickers, batch_ok, info_ok, single_ok, supp)} :
        /\ store' = run.store
        /\ kabutan_store' = run.kabutan
        /\ quote_event' = [op |-> "get_prices", tickers |-> tickers,
                           ret |-> InInputOrder(tickers, run.results),
                           obtained |-> DOMAIN run.results,
                           request |-> run.yf.request, batch_ok |-> batch_ok,
                           fetched |-> DOMAIN run.yf.result, retries |-> run.yf.retries,
                           single_ok |-> single_ok, supp_failed |-> run.supp_failed]
        /\ UNCHANGED <<time_now, cache_ret, last_set, quoteOthers>>

\* get_prices: the tickers of a list that the quote cache does not serve now
NeedsFetch(tickers) ==
    { k \in Keys(tickers) :
        k \notin DOMAIN store \/ CacheExpired(store[k][1], time_now, PriceCacheTTL) }

\* time passes between two calls of get_prices
QuoteTick(d) ==
    /\ time_now + d <= MaxQuoteTime
    /\ time_now' = time_now + d
    /\ UNCHANGED <<store, cache_ret, last_set, kabutan_store, quote_event, quoteOthers>>

(***************************************************************************)
(* rss_monitor: two monitoring cycles sharing the module state             *)
(***************************************************************************)

\* the cycles that run at the same time
ConcThreads == {"t1", "t2"}
\* the quotes a cycle is given; they pass the screening filter
ConcQuotes ==
    { [ticker |-> "6920", price |-> pr, taishaku |-> Taishaku, market_cap |-> 100,
       volume |-> 100] : pr \in {1000, 1040} }
\* the number of calls of check_surge_alerts and screen_and_notify followed
MaxConcCalls == 3
\* time between two steps
ConcSteps == {20, 180}
\* datetime.now() is followed up to here
MaxConcTime == 200

\* a cycle that is in none of the two functions
ConcIdle == [pc |-> "idle", entry |-> [ticker |-> "", at |-> 0]]

InitConc ==
    /\ conc_thread = [th \in ConcThreads |-> ConcIdle]
    /\ conc_calls = 0

\* check_surge_alerts on one quote, from the reading of now to the cooldown
\* check: the price is recorded, and the call goes on to send_line when the
\* base price, the threshold and the cooldown allow it
ConcSurgeCheck(th, p) ==
    LET hist1   == RecordPrice(price_history, p.ticker, p.price, now)
        history == DictGet(hist1, p.ticker, <<>>)
        found   == FindBase(history, now)
        fires   == /\ Len(history) >= 2
                   /\ found # <<>>
                   /\ found[1] > 0
                   /\ ~BelowThreshold(p.price, found[1])
                   /\ ~InCooldown(surge_notified_at, p.ticker, now)
    IN  /\ conc_thread[th].pc = "idle"
        /\ conc_calls < MaxConcCalls
        /\ conc_calls' = conc_calls + 1
        /\ price_history' = hist1
        /\ conc_thread' =
               IF fires
               THEN [conc_thread EXCEPT ![th] =
                        [pc |-> "surge_send",
                         entry |-> [ticker |-> p.ticker, at |-> now, price |-> p.price,
                                    base |-> found[1],
                                    base_age |-> now - BaseTime(history, now),
                                    window_ago |-> PriceWindowAgo(history, now)]]]
               ELSE conc_thread
        /\ UNCHANGED <<surge_notified_at, now, surge_hits, surge_log, record_ret,
                       surge_polled, screenVars, concOthers>>

\* check_surge_alerts: send_line(msg)
ConcSurgeSend(th) ==
    /\ conc_thread[th].pc = "surge_send"
    /\ surge_log' = Append(surge_log, conc_thread[th].entry)
    /\ conc_thread' = [conc_thread EXCEPT ![th].pc = "surge_mark"]
    /\ UNCHANGED <<price_history, surge_notified_at, now, surge_hits, record_ret,
                   surge_polled, screenVars, conc_calls, concOthers>>

\* check_surge_alerts: _surge_notified_at[ticker] = now, with the now read at
\* the start of the call
ConcSurgeMark(th) ==
    /\ conc_thread[th].pc = "surge_mark"
    /\ surge_notified_at' = DictSet(surge_notified_at, conc_thread[th].entry.ticker,
                                    conc_thread[th].entry.at)
    /\ conc_thread' = [conc_thread EXCEPT ![th] = ConcIdle]
    /\ UNCHANGED <<price_history, now, surge_hits, surge_log, record_ret, surge_polled,
                   screenVars, conc_calls, concOthers>>

\* screen_and_notify on one quote: the membership test and the filters
ConcScreenCheck(th, p) ==
    /\ conc_thread[th].pc = "idle"
    /\ conc_calls < MaxConcCalls
    /\ conc_calls' = conc_calls + 1
    /\ conc_thread' =
           IF ~AlreadyNotified(notified_tickers, p.ticker) /\ PassesFilter(p, TRUE)
           THEN [conc_thread EXCEPT ![th] =
                    [pc |-> "screen_add", entry |-> [ticker |-> p.ticker, at |-> now]]]
           ELSE conc_thread
    /\ UNCHANGED <<surgeVars, screenVars, concOthers>>

\* screen_and_notify: hits.append(p); _notified_tickers.add(ticker)
ConcScreenAdd(th) ==
    /\ conc_thread[th].pc = "screen_add"
    /\ notified_tickers' = notified_tickers \cup {conc_thread[th].entry.ticker}
    /\ conc_thread' = [conc_thread EXCEPT ![th].pc = "screen_send"]
    /\ UNCHANGED <<surgeVars, screen_hits, hit_cycles, screen_taishaku_only, conc_calls,
                   concOthers>>

\* screen_and_notify: _send_screen_alert(hits); return hits
ConcScreenSend(th) ==
    /\ conc_thread[th].pc = "screen_send"
    /\ hit_cycles' = [hit_cycles EXCEPT ![conc_thread[th].entry.ticker] = @ + 1]
    /\ conc_thread' = [conc_thread EXCEPT ![th] = ConcIdle]
    /\ UNCHANGED <<surgeVars, notified_tickers, screen_hits, screen_taishaku_only, conc_calls,
                   concOthers>>

\* datetime.now() moves on, also while a call is under way
ConcTick(d) ==
    /\ now + d <= MaxConcTime
    /\ now' = now + d
    /\ UNCHANGED <<price_history, surge_notified_at, surge_hits, surge_log, record_ret,
                   surge_polled, screenVars, concVars, concOthers>>

(***************************************************************************)
(* database: two add_disclosure calls on separate connections              *)
(***************************************************************************)

\* the callers that ingest at the same time (the scheduler job and a fetch
\* button of the app), each with its own connection
AddCallers == {"job", "button"}
\* the number of add_disclosure calls followed
MaxAddCalls == 3

\* a caller that is not inside add_disclosure
AddIdle == [pc |-> "idle", data |-> <<>>, ret |-> <<>>]

InitAddConc ==
    /\ add_call = [c \in AddCallers |-> AddIdle]
    /\ add_calls = 0
    /\ add_done = <<>>

\* add_disclosure: the SELECT for an existing row; the statement runs in
\* autocommit mode, outside of any transaction. With a row the call returns
\* None, without one it goes on to the INSERT.
AddSelect(c, data) ==
    /\ add_call[c].pc = "idle"
    /\ add_calls < MaxAddCalls
    /\ add_calls' = add_calls + 1
    /\ IF ExistingDisclosure(disclosures, data)
       THEN /\ add_done' = Append(add_done, [caller |-> c, key |-> DiscKey(data),
                                             ret |-> <<>>])
            /\ UNCHANGED add_call
       ELSE /\ add_call' = [add_call EXCEPT ![c] = [pc |-> "insert", data |-> <<data>>,
                                                    ret |-> <<>>]]
            /\ UNCHANGED add_done
    /\ UNCHANGED <<disclosures, disc_next_id, add_ret, disc_seen, addConcOthers>>

\* add_disclosure: INSERT INTO disclosures, commit, return cur.lastrowid. The
\* table has no UNIQUE constraint on (ticker, title, disclosed_at).
AddInsert(c) ==
    /\ add_call[c].pc = "insert"
    /\ disclosures' = Append(disclosures, DisclosureRow(disc_next_id, add_call[c].data[1]))
    /\ disc_next_id' = disc_next_id + 1
    /\ add_done' = Append(add_done, [caller |-> c, key |-> DiscKey(add_call[c].data[1]),
                                     ret |-> <<disc_next_id>>])
    /\ add_call' = [add_call EXCEPT ![c] = AddIdle]
    /\ UNCHANGED <<add_calls, add_ret, disc_seen, addConcOthers>>

(***************************************************************************)
(* rss_monitor: record_price called from two polls at the same time        *)
(***************************************************************************)

\* the polls that record prices at the same time
RecThreads == {"t1", "t2"}
\* the prices they record for the one ticker
RecPrices == {1000, 1040}
\* the number of record_price calls followed
MaxRecCalls == 3
\* datetime.now() is followed up to here, in steps of one second
MaxRecTime == 3

\* a poll that is not inside record_price
RecIdle == [pc |-> "idle", ticker |-> "", price |-> 0, ts |-> 0]

InitRecConc ==
    /\ rec_thread = [th \in RecThreads |-> RecIdle]
    /\ rec_calls = 0

\* record_price(ticker, price) up to the evaluation of datetime.now() in
\* _price_history[ticker].append((datetime.now(), price)): the deque is made
\* if the ticker has none, and the timestamp is taken
RecTakeTime(th, ticker, price) ==
    /\ rec_thread[th].pc = "idle"
    /\ rec_calls < MaxRecCalls
    /\ rec_calls' = rec_calls + 1
    /\ IF price <= 0
       THEN UNCHANGED <<rec_thread, price_history>>
       ELSE /\ price_history' = IF ticker \in DOMAIN price_history THEN price_history
                                ELSE DictSet(price_history, ticker, <<>>)
            /\ rec_thread' = [rec_thread EXCEPT ![th] =
                                 [pc |-> "append", ticker |-> ticker, price |-> price,
                                  ts |-> now]]
    /\ UNCHANGED <<surge_notified_at, now, surge_hits, surge_log, record_ret, surge_polled,
                   recConcOthers>>

\* record_price: the append of the (timestamp, price) tuple
RecAppend(th) ==
    /\ rec_thread[th].pc = "append"
    /\ price_history' =
           DictSet(price_history, rec_thread[th].ticker,
                   DequeAppend(price_history[rec_thread[th].ticker],
                               <<rec_thread[th].ts, rec_thread[th].price>>, HistoryMaxLen))
    /\ rec_thread' = [rec_thread EXCEPT ![th] = RecIdle]
    /\ UNCHANGED <<surge_notified_at, now, surge_hits, surge_log, record_ret, surge_polled,
                   rec_calls, recConcOthers>>

\* datetime.now() moves on, also while a call is under way
RecTick ==
    /\ now < MaxRecTime
    /\ now' = now + 1
    /\ UNCHANGED <<price_history, surge_notified_at, surge_hits, surge_log, record_ret,
                   surge_polled, recConcVars, recConcOthers>>

(***************************************************************************)
(* app, tab 8: the monitoring switch and _monitor_fragment;                *)
(* notifier: send_line and _last_line_status                               *)
(***************************************************************************)

\* The quotes get_rss_prices can deliver to the fragment: market_cap in 100
\* million yen (0: unknown), volume in 10 thousand shares
MonitorQuotes ==
    { [ticker |-> "6920", price |-> c[1], volume |-> c[2], market_cap |-> 100,
       taishaku |-> Taishaku] : c \in { <<1000, 50>>, <<1040, 100>> } } \cup
    { [ticker |-> "3856", price |-> 500, volume |-> 100, market_cap |-> 0, taishaku |-> ""] }
\* the number of quotes of one fetch
MaxMonitorBatch == 2
MonitorBatches  == SeqsUpTo(MonitorQuotes, MaxMonitorBatch)
\* the rules created while the fragment is followed
MonitorRules == { data \in AlertInputs : data.direction = "above" }
\* the number of quotes fetched over all runs of the fragment
MaxMonitorQuotes == 3
\* datetime.now() is followed up to here, in steps of the surge window
MaxMonitorTime == 180

\* the fragment starts with monitoring off, no run in progress, no message
\* sent yet (_last_line_status = {"ok": None, ...}); the four alert toggles are
\* on, as they start, alert_filter.taishaku_only is left at its default and
\* the watchlist holds no fushi level
InitMonitor ==
    /\ monitor_active = FALSE
    /\ monitor_pc = "idle"
    /\ last_line_status = <<>>
    /\ monitor_event = NoCall

\* a faulty variant of SendLine: a failure leaves the last status as it was
SendLine_KeepOnFailure(status, ok) == IF ok THEN <<TRUE>> ELSE status

\* send_line(message): _last_line_status["ok"] after the call, when the
\* channel answers ok (status 200) or not (missing token, other status,
\* RequestException); the return value is ok
SendLine(status, ok) == <<ok>>

RECURSIVE SendAll(_, _)
\* _last_line_status["ok"] after the send_line calls of a cycle, in order
SendAll(status, results) ==
    IF results = <<>> THEN status
    ELSE SendAll(SendLine(status, Head(results)), Tail(results))

\* the checks of one run of the fragment, each on the state the one before
\* left: check_surge_alerts, screen_and_notify, check_price_alerts
\* (check_fushi_alerts finds no watchlist row)
MonitorRun(prices, taishaku_only) ==
    [surge  |-> SurgeLoop([hist |-> price_history, notified |-> surge_notified_at,
                           hits |-> <<>>, log |-> surge_log], prices, now),
     screen |-> ScreenLoop([notified |-> notified_tickers, hits |-> <<>>], prices,
                           taishaku_only),
     alert  |-> AlertLoop([table |-> price_alerts, prev |-> prev_volumes,
                           sent |-> alert_sent],
                          ActiveAlerts(price_alerts), price_alerts, PriceMap(prices))]

\* the send_line calls of a run, in the order they are made: one per surge
\* hit, one for all screening hits, one per rule that fired
MonitorSends(run) ==
    [i \in 1..Len(run.surge.hits) |-> [kind |-> "surge", keys |-> {run.surge.hits[i].ticker}]]
    \o (IF run.screen.hits = <<>> THEN <<>>
        ELSE << [kind |-> "screen",
                 keys |-> { run.screen.hits[i].ticker : i \in 1..Len(run.screen.hits) }] >>)
    \o LET fired == SelectSeq(ActiveAlerts(price_alerts),
                              LAMBDA id : run.alert.sent[id] > alert_sent[id])
       IN  [i \in 1..Len(fired) |-> [kind |-> "rule", keys |-> {fired[i]}]]

RECURSIVE TotalSamples(_, _)
\* the number of samples the histories of the tickers of S hold
TotalSamples(hist, S) ==
    IF S = {} THEN 0
    ELSE LET k == CHOOSE x \in S : TRUE
         IN  Len(hist[k]) + TotalSamples(hist, S \ {k})

\* tab 8, the start button with a valid ticker list
StartMonitoring ==
    /\ monitor_active' = TRUE
    /\ UNCHANGED <<monitor_pc, last_line_status, monitor_event, surgeVars, screenVars, alertVars,
                   monitorOthers>>

\* tab 8, the stop button
StopMonitoring ==
    /\ monitor_active' = FALSE
    /\ UNCHANGED <<monitor_pc, last_line_status, monitor_event, surgeVars, screenVars, alertVars,
                   monitorOthers>>

\* _monitor_fragment up to the call of get_rss_prices: it returns at once when
\* monitor_active is not set
MonitorBegin ==
    /\ monitor_pc = "idle"
    /\ IF ~monitor_active
       THEN /\ monitor_event' = [op |-> "skipped", fetched |-> FALSE, active |-> FALSE,
                                 appended |-> 0, sends |-> <<>>, results |-> <<>>, at |-> now]
            /\ UNCHANGED monitor_pc
       ELSE /\ monitor_pc' = "fetching"
            /\ UNCHANGED monitor_event
    /\ UNCHANGED <<monitor_active, last_line_status, surgeVars, screenVars, alertVars,
                   monitorOthers>>

\* datetime.now() moves on between two runs of the fragment and during a fetch
MonitorTick ==
    /\ now + SURGE_WINDOW_SEC <= MaxMonitorTime
    /\ now' = now + SURGE_WINDOW_SEC
    /\ UNCHANGED <<price_history, surge_notified_at, surge_hits, surge_log, record_ret,
                   surge_polled, screenVars, alertVars, monitorVars, monitorOthers>>

\* _monitor_fragment from the return of get_rss_prices on: without quotes it
\* returns; with quotes the checks run on them. results are the answers of the
\* channel to the send_line calls made
MonitorFinish(prices, taishaku_only, results) ==
    /\ monitor_pc = "fetching"
    /\ monitor_pc' = "idle"
    /\ surge_polled + Len(prices) <= MaxMonitorQuotes
    /\ IF prices = <<>>
       THEN /\ results = <<>>
            /\ monitor_event' = [op |-> "cycle", fetched |-> TRUE, active |-> monitor_active,
                                 appended |-> 0, sends |-> <<>>, results |-> <<>>, at |-> now]
            /\ UNCHANGED <<last_line_status, surgeVars, screenVars, alertVars>>
       ELSE \E run \in {MonitorRun(prices, taishaku_only)} :
              LET sends  == MonitorSends(run)
                  hit    == { run.screen.hits[i].ticker : i \in 1..Len(run.screen.hits) }
                  alerts == ActiveAlerts(price_alerts)
              IN  /\ Len(results) = Len(sends)
                  /\ price_history' = run.surge.hist
                  /\ surge_notified_at' = run.surge.notified
                  /\ surge_hits' = run.surge.hits
                  /\ surge_log' = run.surge.log
                  /\ surge_polled' = surge_polled + Len(prices)
                  /\ record_ret' = NoCall
                  /\ notified_tickers' = run.screen.notified
                  /\ screen_hits' = run.screen.hits
                  /\ hit_cycles' = [t \in ScreenTickers |->
                                       IF t \in hit THEN hit_cycles[t] + 1 ELSE hit_cycles[t]]
                  /\ screen_taishaku_only' = taishaku_only
                  /\ price_alerts' = run.alert.table
                  /\ prev_volumes' = run.alert.prev
                  /\ alert_sent' = run.alert.sent
                  /\ alert_cycle' = [op |-> "check", price_map |-> PriceMap(prices),
                                     active_ids |-> { alerts[i] : i \in 1..Len(alerts) }]
                  /\ last_line_status' = SendAll(last_line_status, results)
                  /\ monitor_event' =
                         [op |-> "cycle", fetched |-> TRUE, active |-> monitor_active,
                          appended |-> TotalSamples(run.surge.hist, DOMAIN run.surge.hist)
                                       - TotalSamples(price_history, DOMAIN price_history),
                          sends |-> sends, results |-> results, at |-> now]
                  /\ UNCHANGED <<now, alert_next_id>>
    /\ UNCHANGED <<monitor_active, monitorOthers>>

(***************************************************************************)
(* dde_monitor: check_and_notify_ranking                                   *)
(***************************************************************************)

\* alert_filter.ranking_pct_min = 5.0 and ranking_pct_renotify_delta = 0.5;
\* day-change percentages are counted in tenths of a point
RankingPctMin == 50
RankingPctRenotifyDelta == 5

\* The entries get_ranking_dde can deliver: change_pct in tenths of a point,
\* volume in 10 thousand shares
RankingItems ==
    { [ticker |-> "5678", change_pct |-> c, volume |-> 100] : c \in {49, 50, 54, 55} } \cup
    { [ticker |-> "1234", change_pct |-> c, volume |-> 100] : c \in {50, 55} } \cup
    { [ticker |-> "5678", change_pct |-> 60, volume |-> 99],
      [ticker |-> "9012", change_pct |-> 60, volume |-> 100] }
\* the number of entries of one ranking
MaxRanking == 2
\* the rankings: a ticker has one rank
Rankings ==
    { r \in SeqsUpTo(RankingItems, MaxRanking) :
          \A i, j \in 1..Len(r) : r[i].ticker = r[j].ticker => i = j }
\* what get_ranking_dde does
DdeOutcomes == {"ok", "import_error", "error"}
\* what send_line does: it returns True or False, or it raises
RankingSendOutcomes == {"ok", "fail", "raise"}

InitRanking ==
    /\ last_notified = EmptyDict
    /\ rank_event = NoCall

\* check_and_notify_ranking: the filters of the loop body and the duplicate
\* check; TRUE when the item becomes a notify target
RankingTarget(last, item) ==
    /\ ~ (item.change_pct < RankingPctMin)
    /\ ~ (item.volume < VolumeMin)
    /\ LET cap == GetMarketCapCached(item.ticker)
       IN  ~ (cap # <<>> /\ cap[1] > MarketCapMax)
    /\ ~ (item.ticker \in DOMAIN last
            /\ item.change_pct - last[item.ticker] < RankingPctRenotifyDelta)

\* check_and_notify_ranking: for item in items, collecting notify_targets
RankingTargets(last, items) == SelectSeq(items, LAMBDA item : RankingTarget(last, item))

RECURSIVE RecordAll(_, _)
\* for item in notify_targets: _last_notified[item["ticker"]] = item["change_pct"]
RecordAll(last, targets) ==
    IF targets = <<>> THEN last
    ELSE RecordAll(DictSet(last, Head(targets).ticker, Head(targets).change_pct),
                   Tail(targets))

\* a faulty variant of RecordNotified: the percentages are recorded whatever send_line returned
RecordNotified_Always(last, targets, sent) == RecordAll(last, targets)

\* check_and_notify_ranking: ok = send_line(message); if ok: record the targets
\* (an exception of send_line is caught and nothing is recorded)
RecordNotified(last, targets, sent) ==
    IF sent = "ok" THEN RecordAll(last, targets) ELSE last

\* check_and_notify_ranking()
CheckAndNotifyRanking(dde, items, sent) ==
    LET targets == IF dde = "ok" THEN RankingTargets(last_notified, items) ELSE <<>>
    IN  /\ dde # "ok" => items = <<>>
        /\ targets = <<>> => sent = "ok"
        /\ last_notified' = IF targets = <<>> THEN last_notified
                            ELSE RecordNotified(last_notified, targets, sent)
        /\ rank_event' = [op |-> "check", dde |-> dde, items |-> items,
                          targets |-> targets,
                          sent |-> IF targets = <<>> THEN "none" ELSE sent,
                          before |-> last_notified]
        /\ UNCHANGED rankingOthers

(***************************************************************************)

Init == InitCache /\ InitSurge /\ InitScreen /\ InitDisc /\ InitAlert /\ InitSched
        /\ InitIngest /\ InitQuote /\ InitConc
        /\ InitAddConc
        /\ InitRecConc
        /\ InitMonitor
        /\ InitRanking

NextCache ==
    \/ \E key \in CacheKeys : CacheGet(key)
    \/ \E key \in CacheKeys, value \in CacheValues : CacheSet(key, value)
    \/ CacheClear
    \/ \E d \in CacheSteps : CacheTick(d)

SpecCache == Init /\ [][NextCache]_vars

NextSurge ==
    \/ \E prices \in SurgeBatches[MaxSurgeQuotes - surge_polled] : CheckSurgeAlerts(prices)
    \/ \E d \in SurgeSteps : SurgeTick(d)

SpecSurge == Init /\ [][NextSurge]_vars

NextHist ==
    \/ \E price \in {0, -1, HistPriceAt(now)} : HistRecord(HistTicker, price)
    \/ HistTick

SpecHist == Init /\ [][NextHist]_vars

NextScreen ==
    \/ \E prices \in ScreenBatches, taishaku_only \in BOOLEAN :
          ScreenAndNotify(prices, taishaku_only)
    \/ ResetNotified

SpecScreen == Init /\ [][NextScreen]_vars

NextDisc ==
    \E data \in DiscRecords : AddDisclosure(data)

SpecDisc == Init /\ [][NextDisc]_vars

NextAlert ==
    \/ \E data \in AlertInputs : AddPriceAlert(data)
    \/ \E alert_id \in 1..MaxAlerts : DeactivateAlert(alert_id)
    \/ \E prices \in AlertBatches : CheckPriceAlerts(prices)

SpecAlert == Init /\ [][NextAlert]_vars

NextSched ==
    \/ \E t \in SchedStarts : StartScheduler(t)
    \/ \E fail \in {"none"} \cup RaisingJobs, d \in SchedSteps : RunPending(fail, d)

SpecSched == Init /\ [][NextSched]_vars

NextIngest ==
    \/ \E page \in IngestBatches, auto_notify, line_ok, discord_ok \in BOOLEAN :
          JobCheckTdnet(page, auto_notify, line_ok, discord_ok)
    \/ \E source \in {"kabutan", "prtimes"}, page \in IngestBatches :
          AppFetchButton(source, page)

SpecIngest == Init /\ [][NextIngest]_vars

\* the remote side answers for the tickers that are fetched: the batch works
\* or not, ok are the tickers whose info is delivered (by the batch, or by
\* the individual requests when the batch failed), supp is what their kabutan
\* lookups do
NextQuote ==
    \/ \E tickers \in QuoteLists :
          \E batch_ok \in (IF NeedsFetch(tickers) = {} THEN {TRUE} ELSE BOOLEAN),
             ok \in SUBSET NeedsFetch(tickers) :
             \E supp \in [ok -> SuppOutcomes] :
                GetPrices(tickers, batch_ok, IF batch_ok THEN ok ELSE {},
                          IF batch_ok THEN {} ELSE ok, supp)
    \/ \E d \in QuoteSteps : QuoteTick(d)

SpecQuote == Init /\ [][NextQuote]_vars

NextConc ==
    \/ \E th \in ConcThreads, p \in ConcQuotes : ConcSurgeCheck(th, p)
    \/ \E th \in ConcThreads : ConcSurgeSend(th)
    \/ \E th \in ConcThreads : ConcSurgeMark(th)
    \/ \E th \in ConcThreads, p \in ConcQuotes : ConcScreenCheck(th, p)
    \/ \E th \in ConcThreads : ConcScreenAdd(th)
    \/ \E th \in ConcThreads : ConcScreenSend(th)
    \/ \E d \in ConcSteps : ConcTick(d)

SpecConc == Init /\ [][NextConc]_vars

NextAddConc ==
    \/ \E c \in AddCallers, data \in DiscRecords : AddSelect(c, data)
    \/ \E c \in AddCallers : AddInsert(c)

SpecAddConc == Init /\ [][NextAddConc]_vars

NextRecConc ==
    \/ \E th \in RecThreads, price \in RecPrices \cup {0} : RecTakeTime(th, HistTicker, price)
    \/ \E th \in RecThreads : RecAppend(th)
    \/ RecTick

SpecRecConc == Init /\ [][NextRecConc]_vars

NextMonitor ==
    \/ StartMonitoring
    \/ StopMonitoring
    \/ MonitorBegin
    \/ \E prices \in MonitorBatches :
          \E results \in [1..Len(MonitorSends(MonitorRun(prices, TRUE))) -> BOOLEAN] :
              MonitorFinish(prices, TRUE, results)
    \/ MonitorTick
    \/ \E data \in MonitorRules : AddPriceAlert(data)

SpecMonitor == Init /\ [][NextMonitor]_vars

NextRanking ==
    \E dde \in DdeOutcomes, items \in Rankings, sent \in RankingSendOutcomes :
        CheckAndNotifyRanking(dde, items, sent)

SpecRanking == Init /\ [][NextRanking]_vars

Next == NextCache \/ NextSurge \/ NextHist \/ NextScreen \/ NextDisc \/ NextAlert \/ NextSched
            \/ NextIngest \/ NextQuote \/ NextConc
            \/ NextAddConc
            \/ NextRecConc
            \/ NextMonitor
            \/ NextRanking

Spec == Init /\ [][Next]_vars

(***************************************************************************)
(* Properties                                                              *)
(***************************************************************************)

\* C1 (SpecCache): a get never returns a value set more than the TTL ago: such a
\* read returns None and the entry is gone from the store; a key never set (or
\* cleared since) reads None; an entry at most TTL old reads as last set.
C1_GetFreshOrAbsent ==
    cache_ret.op = "get" =>
        LET k == cache_ret.key
        IN  IF k \notin DOMAIN last_set
            THEN cache_ret.value = None
            ELSE IF time_now - last_set[k][1] > PriceCacheTTL
                 THEN cache_ret.value = None /\ k \notin DOMAIN store
                 ELSE cache_ret.value = last_set[k][2]

\* a get of an entry one second past its TTL has just returned None
C1_Witness ==
    /\ cache_ret.op = "get"
    /\ cache_ret.key \in DOMAIN last_set
    /\ time_now - last_set[cache_ret.key][1] = PriceCacheTTL + 1
    /\ cache_ret.value = None

\* C2 (SpecSurge): two surge alerts sent for the same ticker are at least
\* SURGE_COOLDOWN_SEC (300 s) apart.
C2_SurgeCooldown ==
    \A i, j \in 1..Len(surge_log) :
        (i < j /\ surge_log[i].ticker = surge_log[j].ticker)
            => surge_log[j].at - surge_log[i].at >= SURGE_COOLDOWN_SEC

\* a ticker has had two surge alerts
C2_Witness ==
    \E i, j \in 1..Len(surge_log) :
        i < j /\ surge_log[i].ticker = surge_log[j].ticker

\* before a cycle: a quote of ticker t at `price` is at least 4.0% above the base
\* price (the first sample, oldest first, that is at least 180 s old), and no
\* surge alert for t was sent in the previous 300 s
C3_Eligible(t, price) ==
    /\ price > 0
    /\ t \in DOMAIN price_history
    /\ LET h   == price_history[t]
           old == { i \in 1..Len(h) : now - h[i][1] >= SURGE_WINDOW_SEC }
       IN  /\ old # {}
           /\ LET b == h[CHOOSE i \in old : \A j \in old : i <= j][2]
              IN  (price - b) * 100 >= SURGE_THRESHOLD_PCT * b
    /\ \A k \in 1..Len(surge_log) :
           surge_log[k].ticker = t => now - surge_log[k].at >= SURGE_COOLDOWN_SEC

C4_AlertIsWindowRise ==
    \A k \in 1..Len(surge_log) :
        (surge_log[k].price - surge_log[k].window_ago) * 100
            >= SURGE_THRESHOLD_PCT * surge_log[k].window_ago

\* C5 (SpecScreen): between two reset_notified calls a ticker is returned as a hit
\* in at most one cycle, and at most once in that cycle; a ticker returned as a
\* hit since the last reset is still in the notified-set.
C5_ScreenOneShot ==
    /\ \A t \in ScreenTickers :
           /\ hit_cycles[t] <= 1
           /\ hit_cycles[t] = 1 => t \in notified_tickers
    /\ \A i, j \in 1..Len(screen_hits) :
           screen_hits[i].ticker = screen_hits[j].ticker => i = j

\* a ticker that was a hit earlier is absent from the hits of a later cycle
\* that returned another ticker
C5_Witness ==
    \E t \in ScreenTickers :
        /\ hit_cycles[t] = 1
        /\ t \in notified_tickers
        /\ screen_hits # <<>>
        /\ \A i \in 1..Len(screen_hits) : screen_hits[i].ticker # t

\* C6 (SpecDisc): the table holds at most one row per (ticker, title,
\* disclosed_at); the first add_disclosure of a key returns a new id and adds
\* its row, every later one returns None and leaves the table as it was.
C6_DisclosureIdempotent ==
    /\ \A i, j \in 1..Len(disclosures) :
           DiscKey(disclosures[i]) = DiscKey(disclosures[j]) => i = j
    /\ add_ret.op = "add" =>
           IF DiscKey(add_ret.data) \in disc_seen
           THEN /\ add_ret.ret = <<>>
                /\ disclosures = add_ret.rows_before
           ELSE /\ add_ret.ret # <<>>
                /\ \A i \in 1..Len(add_ret.rows_before) :
                       add_ret.rows_before[i].id # add_ret.ret[1]
                /\ disclosures = Append(add_ret.rows_before, disclosures[Len(disclosures)])
                /\ disclosures[Len(disclosures)].id = add_ret.ret[1]
                /\ DiscKey(disclosures[Len(disclosures)]) = DiscKey(add_ret.data)

\* a record whose key another source stored before has just been refused
C6_Witness ==
    /\ add_ret.op = "add"
    /\ add_ret.ret = <<>>
    /\ \E i \in 1..Len(disclosures) :
           /\ DiscKey(disclosures[i]) = DiscKey(add_ret.data)
           /\ disclosures[i].source # add_ret.data.source

\* a step is a check_price_alerts cycle
C_IsCheck == alert_cycle'.op = "check"

\* the rule's condition on the quote of its ticker in the cycle of this step
C7_Reached(r) ==
    LET p == alert_cycle'.price_map[r.ticker]
    IN  \/ r.direction = "above" /\ p.price >= r.target_price
        \/ r.direction = "below" /\ p.price <= r.target_price

\* C7 (SpecAlert): a price-target rule is one-shot. In a cycle that quotes its
\* ticker, an active rule whose condition is not met sends nothing and stays as
\* it is; one whose condition is met sends once and becomes triggered=1,
\* active=0. A triggered rule stays triggered and inactive and sends nothing
\* more; no rule becomes active again; a rule sends at most once.
C7_PriceTargetOneShot ==
    [][ \A id \in DOMAIN price_alerts :
          LET r  == price_alerts[id]
              r2 == price_alerts'[id]
          IN  (r.alert_type = "price" /\ r.target_price # NoTarget) =>
                /\ (C_IsCheck /\ r.active = 1 /\ r.ticker \in DOMAIN alert_cycle'.price_map)
                      => IF C7_Reached(r)
                         THEN /\ alert_sent'[id] = alert_sent[id] + 1
                              /\ r2 = [r EXCEPT !.triggered = 1, !.active = 0]
                         ELSE /\ alert_sent'[id] = alert_sent[id]
                              /\ r2 = r
                /\ r.triggered = 1
                      => r2.triggered = 1 /\ r2.active = 0 /\ alert_sent'[id] = alert_sent[id]
                /\ r.active = 0 => r2.active = 0
                /\ alert_sent'[id] <= 1
      ]_vars

\* a cycle has just quoted a price that meets the condition of a rule that had
\* fired in an earlier cycle, and the rule has still sent only once
C7_Witness ==
    /\ alert_cycle.op = "check"
    /\ \E id \in DOMAIN price_alerts :
           LET r == price_alerts[id]
           IN  /\ r.alert_type = "price"
               /\ r.triggered = 1
               /\ id \notin alert_cycle.active_ids
               /\ r.ticker \in DOMAIN alert_cycle.price_map
               /\ r.direction = "above"
               /\ alert_cycle.price_map[r.ticker].price > r.target_price
               /\ alert_sent[id] = 1

\* C8 (SpecAlert): in a cycle that quotes its ticker, an active volume-surge rule
\* fires exactly when a previous volume of the ticker is recorded and the current
\* volume is at least that volume times the rule's ratio; on firing the rule
\* becomes triggered=1, active=0.
C8_VolumeSurgeFires ==
    [][ \A id \in DOMAIN price_alerts :
          LET r == price_alerts[id]
          IN  (C_IsCheck /\ r.alert_type = "volume" /\ r.active = 1
                 /\ r.ticker \in DOMAIN alert_cycle'.price_map) =>
                LET cur      == alert_cycle'.price_map[r.ticker].volume
                    expected == /\ r.ticker \in DOMAIN prev_volumes
                                /\ cur >= prev_volumes[r.ticker] * r.volume_ratio
                    fired    == alert_sent'[id] = alert_sent[id] + 1
                IN  /\ expected <=> fired
                    /\ fired => price_alerts'[id] = [r EXCEPT !.triggered = 1, !.active = 0]
                    /\ ~ fired => price_alerts'[id] = r /\ alert_sent'[id] = alert_sent[id]
      ]_vars

\* C9 (SpecAlert): a cycle reads the active rules and evaluates only those. A rule
\* that is inactive when the cycle starts, and an active rule whose ticker the
\* cycle does not quote, sends nothing and is left as it is; the recorded
\* previous volume of a ticker changes only if an active volume-surge rule on
\* the ticker is evaluated.
C9_InactiveNeverEvaluated ==
    [][ C_IsCheck =>
          /\ alert_cycle'.active_ids = { id \in DOMAIN price_alerts : price_alerts[id].active = 1 }
          /\ \A id \in DOMAIN price_alerts :
                LET r == price_alerts[id]
                IN  (r.active = 0 \/ r.ticker \notin DOMAIN alert_cycle'.price_map)
                        => /\ price_alerts'[id] = r
                           /\ alert_sent'[id] = alert_sent[id]
          /\ \A t \in AlertTickers :
                (~ \E id \in DOMAIN price_alerts :
                       /\ price_alerts[id].active = 1
                       /\ price_alerts[id].alert_type = "volume"
                       /\ price_alerts[id].ticker = t
                       /\ t \in DOMAIN alert_cycle'.price_map)
                    => /\ (t \in DOMAIN prev_volumes') <=> (t \in DOMAIN prev_volumes)
                       /\ t \in DOMAIN prev_volumes => prev_volumes'[t] = prev_volumes[t]
      ]_vars

\* a cycle has just quoted a price meeting the condition of a rule deactivated
\* from outside, which has not sent, while an active rule's ticker was not quoted
C9_Witness ==
    /\ alert_cycle.op = "check"
    /\ \E id \in DOMAIN price_alerts :
           LET r == price_alerts[id]
           IN  /\ r.alert_type = "price"
               /\ r.active = 0
               /\ r.triggered = 0
               /\ r.ticker \in DOMAIN alert_cycle.price_map
               /\ r.direction = "below"
               /\ alert_cycle.price_map[r.ticker].price <= r.target_price
               /\ alert_sent[id] = 0
    /\ \E id \in alert_cycle.active_ids :
           /\ price_alerts[id].active = 1
           /\ price_alerts[id].ticker \notin DOMAIN alert_cycle.price_map

\* C10 (SpecHist): a history never holds more than 200 samples; a record_price
\* with a positive price appends the sample, and when the history was full the
\* oldest sample is the one that leaves; a non-positive price changes nothing.
C10_HistoryBounded ==
    /\ \A t \in DOMAIN price_history : Len(price_history[t]) <= HistoryMaxLen
    /\ record_ret.op = "record" =>
           LET before == record_ret.before
               after  == DictGet(price_history, record_ret.ticker, <<>>)
               sample == <<record_ret.at, record_ret.price>>
           IN  IF record_ret.price <= 0
               THEN after = before
               ELSE IF Len(before) = HistoryMaxLen
                    THEN after = Append(Tail(before), sample)
                    ELSE after = Append(before, sample)

\* a positive price has just been recorded into a full history
C10_Witness ==
    /\ record_ret.op = "record"
    /\ record_ret.price > 0
    /\ Len(record_ret.before) = HistoryMaxLen
    /\ Len(price_history[record_ret.ticker]) = HistoryMaxLen

\* a time on a Saturday or a Sunday
C13_IsWeekend(t) == ((t \div DaySec) % 7) \in {5, 6}

\* the session windows 09:00-11:30 and 12:30-15:00, bounds included, on the
\* hour and minute of a time
C14_InSession(t) ==
    LET hm == << (t % DaySec) \div 3600, ((t % DaySec) % 3600) \div 60 >>
        After(a, b)  == a[1] > b[1] \/ (a[1] = b[1] /\ a[2] >= b[2])
    IN  \/ After(hm, <<9, 0>>) /\ After(<<11, 30>>, hm)
        \/ After(hm, <<12, 30>>) /\ After(<<15, 0>>, hm)

\* C12 (SpecSched): when the body of a scheduled job raises in a pass, the
\* scheduler loop keeps running.
C12_LoopSurvivesJobFailure ==
    (sched_event.op = "pass" /\ sched_event.raised # "none") => sched_alive

\* C13 (SpecSched): in a pass made on a Saturday or Sunday no job body
\* executes.
C13_WeekendRunsNothing ==
    (sched_event.op = "pass" /\ C13_IsWeekend(sched_event.at))
        => sched_event.executed = {}

\* C14 (SpecSched): a trigger of the disclosure check inside a session window
\* executes the body; outside the windows it executes the body exactly when
\* there was no off-hours execution before or the last one is at least 1800 s
\* old.
C14_OffHoursThrottle ==
    (sched_event.op = "pass" /\ "tdnet" \in sched_event.triggered) =>
        LET ran == "tdnet" \in sched_event.executed
            gap == sched_event.tdnet_gap[1]
        IN  IF C14_InSession(sched_event.at)
            THEN ran
            ELSE ran <=> (gap = -1 \/ gap >= 1800)

\* an off-hours trigger exactly 1800 s after the previous off-hours execution
\* has executed the body
C14_Witness ==
    /\ sched_event.op = "pass"
    /\ "tdnet" \in sched_event.executed
    /\ ~C14_InSession(sched_event.at)
    /\ sched_event.tdnet_gap = <<1800>>

\* C11 (SpecIngest): after a run of the disclosure job whose notification was
\* delivered on no channel, the records the run inserted are still notified = 0.
C11_NotifiedOnlyAfterDelivery ==
    (ingest_event.op = "job" /\ ingest_event.sent
       /\ ~ingest_event.line_ok /\ ~ingest_event.discord_ok) =>
        \A i \in 1..Len(disclosures) :
            disclosures[i].id \in ingest_event.new_ids => disclosures[i].notified = 0

\* C18 (SpecIngest): a row the cap filter of a scraper dropped has a known
\* market cap above the ceiling.
C18_CapFilterOnlyKnownCaps ==
    ingest_event.op \in {"job", "button"} =>
        \A ticker \in ingest_event.cap_dropped :
            /\ MarketCapLookup[ticker] # <<>>
            /\ MarketCapLookup[ticker][1] > CapMax

\* C19 (SpecIngest): no row of the disclosures table has a fund/ETF keyword in
\* its title or company name, or a periodic-report keyword in its title.
C19_StoredRowsPassContentFilters ==
    \A i \in 1..Len(disclosures) :
        /\ \A kw \in EtfKeywords :
               kw \notin TextKeywords[disclosures[i].title]
                   \cup TextKeywords[disclosures[i].company_name]
        /\ \A kw \in KessanKeywords : kw \notin TextKeywords[disclosures[i].title]

\* the distinct elements of a list, in order of first occurrence
RECURSIVE C15_Dedup(_, _)
C15_Dedup(seq, seen) ==
    IF seq = <<>> THEN <<>>
    ELSE IF Head(seq) \in seen THEN C15_Dedup(Tail(seq), seen)
         ELSE <<Head(seq)>> \o C15_Dedup(Tail(seq), seen \cup {Head(seq)})

\* C15 (SpecQuote): get_prices returns the quotes of the distinct input tickers
\* for which data was obtained, each once, in order of first occurrence; the
\* batch request names each ticker once; an empty input gives an empty list
\* and no remote request.
C15_ResultIsDedupedInput ==
    quote_event.op = "get_prices" =>
        LET want == SelectSeq(C15_Dedup(quote_event.tickers, {}),
                              LAMBDA k : k \in quote_event.obtained)
            got  == [i \in 1..Len(quote_event.ret) |-> quote_event.ret[i].ticker]
        IN  /\ got = want
            /\ \A k \in QuoteTickers : Count(quote_event.request, k) <= 1
            /\ quote_event.tickers = <<>> =>
                   (quote_event.ret = <<>> /\ quote_event.request = <<>>)

\* C16 (SpecQuote): after a batch request every ticker it left without data
\* (all of them when the batch failed as a whole) is requested individually
\* exactly once; a ticker with data from the batch or from its retry is in the
\* result, a ticker whose retry failed is not.
C16_MissingRetriedOnce ==
    (quote_event.op = "get_prices" /\ quote_event.request # <<>>) =>
        LET asked   == Keys(quote_event.request)
            missing == IF quote_event.batch_ok THEN asked \ quote_event.fetched ELSE asked
        IN  /\ \A k \in missing : quote_event.retries[k] = 1
            /\ \A k \in asked \ missing : k \in quote_event.obtained
            /\ \A k \in missing :
                   k \in quote_event.obtained <=> k \in quote_event.single_ok

\* C17 (SpecQuote): a freshly fetched quote whose kabutan lookup failed is in the
\* result of get_prices with market_cap = 0 and an empty margin class, and the
\* quote cache holds it.
C17_EnrichmentFailureKeepsQuote ==
    quote_event.op = "get_prices" =>
        \A k \in quote_event.fetched \cap quote_event.supp_failed :
            /\ \E i \in 1..Len(quote_event.ret) : quote_event.ret[i].ticker = k
            /\ \A i \in 1..Len(quote_event.ret) :
                   quote_event.ret[i].ticker = k =>
                       /\ quote_event.ret[i].market_cap = 0
                       /\ quote_event.ret[i].taishaku = ""
                       /\ k \in DOMAIN store
                       /\ store[k][2] = quote_event.ret[i]

\* get_prices has returned two fresh quotes, one whose kabutan lookup failed and
\* one enriched with market cap and margin class
C17_Witness ==
    /\ quote_event.op = "get_prices"
    /\ \E k \in quote_event.fetched \cap quote_event.supp_failed :
           \E i \in 1..Len(quote_event.ret) : quote_event.ret[i].ticker = k
    /\ \E i \in 1..Len(quote_event.ret) :
           /\ quote_event.ret[i].ticker \in quote_event.fetched
           /\ quote_event.ret[i].taishaku = Taishaku

\* C20 (SpecConc): with two cycles running check_surge_alerts and
\* screen_and_notify step by step in any interleaving, two surge alerts for one
\* ticker are at least 300 s apart and a ticker is a screening hit at most once.
C20_AtMostOnceUnderConcurrency ==
    /\ \A i, j \in 1..Len(surge_log) :
           (i < j /\ surge_log[i].ticker = surge_log[j].ticker)
               => (surge_log[j].at - surge_log[i].at >= SURGE_COOLDOWN_SEC
                   \/ surge_log[i].at - surge_log[j].at >= SURGE_COOLDOWN_SEC)
    /\ \A tk \in ScreenTickers : hit_cycles[tk] <= 1

\* C21 (SpecAddConc): with the existence check and the insert of two
\* add_disclosure calls interleaved, the table has at most one row per
\* (ticker, title, disclosed_at), and of the calls that returned for one key
\* exactly one returned an id.
C21_UniqueUnderConcurrency ==
    /\ \A i, j \in 1..Len(disclosures) :
           DiscKey(disclosures[i]) = DiscKey(disclosures[j]) => i = j
    /\ \A i, j \in 1..Len(add_done) :
           (add_done[i].key = add_done[j].key /\ add_done[i].ret # <<>>
              /\ add_done[j].ret # <<>>) => i = j

\* C22 (SpecRecConc): the timestamps of each ticker's price history never
\* decrease from oldest to newest, with record_price calls interleaved between
\* taking the timestamp and appending.
C22_HistoryChronological ==
    \A tk \in DOMAIN price_history :
        \A i, j \in 1..Len(price_history[tk]) :
            i < j => price_history[tk][i][1] <= price_history[tk][j][1]


\* the stage of the lifecycle the record of a key is in: 0 absent, 1 stored
\* with notified = 0, 2 stored with notified = 1
C23_Stage(rows, key) ==
    IF \E i \in 1..Len(rows) : DiscKey(rows[i]) = key /\ rows[i].notified = 1 THEN 2
    ELSE IF \E i \in 1..Len(rows) : DiscKey(rows[i]) = key THEN 1
    ELSE 0

\* C23 (SpecIngest): no ingestion run deletes or rewrites a stored row or
\* clears its notified flag, so the record of every key only moves forward
\* through absent, stored unnotified, stored notified; and the rows of the
\* keys a run found stored already are left exactly as they were.
C23_LifecycleMonotone ==
    [][ /\ Len(disclosures') >= Len(disclosures)
        /\ \A i \in 1..Len(disclosures) :
               /\ [disclosures'[i] EXCEPT !.notified = 0] = [disclosures[i] EXCEPT !.notified = 0]
               /\ disclosures'[i].notified >= disclosures[i].notified
               /\ DiscKey(disclosures[i]) \in ingest_event'.dup_keys
                      => disclosures'[i] = disclosures[i]
        /\ \A key \in { DiscKey(disclosures[i]) : i \in 1..Len(disclosures) } \cup
                       { DiscKey(disclosures'[i]) : i \in 1..Len(disclosures') } :
               C23_Stage(disclosures', key) >= C23_Stage(disclosures, key)
      ]_vars

\* a run found a notified record stored already while it stored and notified a new one
C23_Witness ==
    /\ ingest_event.op = "job" /\ ingest_event.sent
    /\ \E i \in 1..Len(disclosures) :
           /\ DiscKey(disclosures[i]) \in ingest_event.dup_keys
           /\ disclosures[i].notified = 1
           /\ disclosures[i].id \notin ingest_event.new_ids

\* C24 (SpecMonitor): whatever the channel answered to the send_line calls of
\* a monitoring cycle, failure included, the cycle leaves the cooldown time of
\* every surge alert recorded, every screening hit in the notified-set and
\* every rule that fired triggered and inactive; the last dispatch status is
\* the answer to the last call; and no condition is dispatched twice in the
\* cycle.
C24_FailedDispatchNotRequeued ==
    monitor_event.op = "cycle" =>
        LET sends   == monitor_event.sends
            results == monitor_event.results
        IN  /\ Len(results) = Len(sends)
            /\ \A i \in 1..Len(sends) :
                   /\ sends[i].kind = "surge" =>
                          \A tk \in sends[i].keys :
                              /\ tk \in DOMAIN surge_notified_at
                              /\ surge_notified_at[tk] = monitor_event.at
                   /\ sends[i].kind = "screen" => sends[i].keys \subseteq notified_tickers
                   /\ sends[i].kind = "rule" =>
                          \A id \in sends[i].keys :
                              price_alerts[id].active = 0 /\ price_alerts[id].triggered = 1
            /\ \A i, j \in 1..Len(sends) :
                   (i # j /\ sends[i].kind = sends[j].kind)
                       => sends[i].keys \cap sends[j].keys = {}
            /\ results # <<>> => last_line_status = << results[Len(results)] >>

\* a cycle dispatched a surge alert, a screening hit and a rule, and the
\* channel failed each time
C24_Witness ==
    /\ monitor_event.op = "cycle"
    /\ \A kind \in {"surge", "screen", "rule"} :
           \E i \in 1..Len(monitor_event.sends) :
               monitor_event.sends[i].kind = kind /\ ~monitor_event.results[i]
    /\ last_line_status = <<FALSE>>

\* C25 (SpecMonitor): a run of the fragment that finds monitoring off fetches
\* nothing, appends nothing and dispatches nothing; and a run whose fetch
\* returns after monitoring was turned off appends no sample to the price
\* histories and dispatches no alert.
C25_CancellationDiscardsResults ==
    /\ monitor_event.op = "skipped" =>
           /\ ~monitor_event.fetched
           /\ monitor_event.appended = 0
           /\ monitor_event.sends = <<>>
    /\ (monitor_event.op = "cycle" /\ ~monitor_event.active) =>
           /\ monitor_event.appended = 0
           /\ monitor_event.sends = <<>>

\* C26 (SpecScreen): every quote screen_and_notify returns as a hit has the
\* lendable margin class when taishaku_only is set, a known market cap
\* (greater than 0) of at most the ceiling, and a volume of at least the floor.
C26_HitsSatisfyAllPredicates ==
    \A i \in 1..Len(screen_hits) :
        /\ screen_taishaku_only => screen_hits[i].taishaku = Taishaku
        /\ screen_hits[i].market_cap > 0
        /\ screen_hits[i].market_cap <= MarketCapMax
        /\ screen_hits[i].volume >= VolumeMin

\* with taishaku_only set, a lendable quote exactly at the ceiling and at the
\* floor was returned as a hit
C26_Witness ==
    /\ screen_taishaku_only
    /\ \E i \in 1..Len(screen_hits) :
           /\ screen_hits[i].taishaku = Taishaku
           /\ screen_hits[i].market_cap = MarketCapMax
           /\ screen_hits[i].volume = VolumeMin

\* C27 (SpecAlert): in a check_price_alerts cycle every active volume-surge
\* rule whose ticker is quoted fires exactly when the quoted volume is at
\* least volume_ratio times the volume recorded for the ticker before the
\* cycle (and one was recorded), two rules on one ticker included; and the
\* cycle leaves the quoted volume recorded for the ticker.
C27_VolumeBaselineIsPreviousCycle ==
    [][ alert_cycle'.op = "check" =>
          \A id \in DOMAIN price_alerts :
              (/\ price_alerts[id].active = 1
               /\ price_alerts[id].alert_type = "volume"
               /\ price_alerts[id].ticker \in DOMAIN alert_cycle'.price_map) =>
                  LET ticker      == price_alerts[id].ticker
                      current_vol == alert_cycle'.price_map[ticker].volume
                      baseline    == DictGet(prev_volumes, ticker, 0)
                  IN  /\ (alert_sent'[id] > alert_sent[id]) <=>
                             (baseline > 0
                                /\ current_vol >= baseline * price_alerts[id].volume_ratio)
                      /\ prev_volumes'[ticker] = current_vol
      ]_vars

\* the samples of a history that are at least 180 s old at time t
C28_OldEnough(history, t) ==
    { i \in 1..Len(history) : t - history[i][1] >= SURGE_WINDOW_SEC }

C29_RenotifyOnlyOnRise ==
    rank_event.op = "check" =>
        LET targets == rank_event.targets
            before  == rank_event.before
        IN  /\ \A i \in 1..Len(targets) :
                   targets[i].ticker \in DOMAIN before =>
                       targets[i].change_pct - before[targets[i].ticker]
                           >= RankingPctRenotifyDelta
            /\ rank_event.sent # "ok" => last_notified = before
            /\ \A tk \in DOMAIN last_notified :
                   (tk \notin DOMAIN before \/ last_notified[tk] # before[tk]) =>
                       /\ rank_event.sent = "ok"
                       /\ \E i \in 1..Len(targets) :
                              /\ targets[i].ticker = tk
                              /\ targets[i].change_pct = last_notified[tk]
            /\ DOMAIN before \subseteq DOMAIN last_notified

\* a ticker recorded at 5.0 was notified again at exactly 5.5 and the send
\* failed: its recorded percentage is still 5.0
C29_Witness ==
    /\ rank_event.op = "check"
    /\ rank_event.sent = "fail"
    /\ \E i \in 1..Len(rank_event.targets) :
           LET item == rank_event.targets[i]
           IN  /\ item.ticker \in DOMAIN rank_event.before
               /\ item.change_pct - rank_event.before[item.ticker] = RankingPctRenotifyDelta
               /\ last_notified[item.ticker] = rank_event.before[item.ticker]

\* C30 (SpecQuote): after a get_prices call, the supplemental cache has no
\* entry for a ticker whose kabutan lookup in that call failed (it delivered
\* nothing, or it raised).
C30_FailedEnrichmentNotCached ==
    quote_event.op = "get_prices" =>
        \A k \in quote_event.supp_failed : k \notin DOMAIN kabutan_store

====
